---- MODULE Spec2Model ----
(***************************************************************************)
(* Process supervision and streaming in robot_runner: the logcat           *)
(* supervisor (src-tauri/src/adb/logcat.rs), the test runner               *)
(* (src-tauri/src/runner.rs), the tunnel service (src-tauri/src/ngrok.rs)  *)
(* and the Appium server (src-tauri/src/appium.rs).                        *)
(*                                                                         *)
(* Every step that runs between two acquisitions of a mutex, or between    *)
(* two reads of the stop flag, is one action.  External commands (adb      *)
(* pidof, reading oom_score_adj, Command::spawn) answer                    *)
(* nondeterministically.                                                   *)
(* The subsystems share no state, so each is checked under its own         *)
(* specification; Spec is their composition.                               *)
(***************************************************************************)
EXTENDS Integers, Sequences, FiniteSets, TLC

(***************************************************************************)
(* Bounds of the model.                                                    *)
(***************************************************************************)
MaxUnits == 2       \* successful start_logcat calls in one behaviour
MaxProcs == 2       \* adb logcat processes spawned in one behaviour
MaxLines == 2       \* stdout lines one adb logcat process writes
MaxTestProcs == 2   \* test processes spawned in one behaviour
MaxKills == 1       \* stop_test calls that find the same child in the registry
MaxAppends == 3     \* lines written past the high-water mark in the buffer specification
InitSlack == 3      \* the buffer specification starts 0..InitSlack lines under the mark
MaxStream == 5      \* stdout lines the process writes in the streaming specification
MaxNgrokCalls == 2  \* start_ngrok calls in one behaviour
MaxNgrokProcs == 2  \* ngrok processes spawned in one behaviour
MaxNgrokLines == 2  \* stdout lines one ngrok process writes
MaxAppium == 3      \* Appium processes spawned in one behaviour
MaxLookups == 4     \* get_pid calls recorded in the specification of restarts
MaxOut == 2         \* lines one test process writes to each of stdout and stderr
MaxSamples == 2     \* get_pid calls recorded with the outputs of their adb commands
MaxAppiumOut == 2   \* lines one Appium process writes to each of stdout and stderr
MaxCallers == 2     \* threads that run commands at the same time in the specifications of locks
MaxLockUnits == 1   \* successful start_logcat calls in the specifications of locks

Devices == {1, 2}           \* device keys
\* the <<filter, output_file>> arguments of start_logcat; filter: FALSE is None,
\* TRUE is Some(package); output_file: 0 is None, 1 is Some(path)
StartArgs == {<<FALSE, 0>>, <<TRUE, 1>>}
Pids == {1, 2}              \* pids adb pidof can report for the package
RunIds == {1, 2}            \* run ids of test runs

(***************************************************************************)
(* Program constants.                                                      *)
(***************************************************************************)
HighWater == 10000     \* b.len() > 10000
EvictBlock == 1000     \* b.drain(0..1000)
CachedScore == 900     \* score >= 900

VARIABLES
  procs,        \* LogcatState: device -> unit (its LogcatProcess), 0 is no entry
  cfg,          \* per unit: [device, pkg, output_file] given at start
  should_stop,  \* per unit: the AtomicBool
  child,        \* per unit: the child slot, 0 is None, else an OS process
  buffer,       \* per unit: the Vec<String>
  sup,          \* per unit: the supervisor thread [pc, current_pid, child_proc]
  os,           \* per adb logcat process: [unit, pidarg, st, written, kills]
  relay,        \* per adb logcat process: its reader thread [pc, readn, fw]
  mirror,       \* the lines written to the output file, in the order written
  lookups,      \* the recorded get_pid calls: [unit, at, ans], in the order made
  client,       \* per device: a polling client [off, got]
  query         \* the last response of a query command

logcatVars == <<procs, cfg, should_stop, child, buffer, sup, os, relay>>
fileVars == <<mirror>>
lookupVars == <<lookups>>
pollVars == <<client, query>>

VARIABLES
  testProcs,    \* TestState: run_id -> Child (an OS process), 0 is no entry
  tos,          \* per test process: [run, st, reaped, kills]
  tcall,        \* spawn_and_monitor calls between spawn and the registry lock
  tmon,         \* per test process: its monitoring thread [pc]
  finished,     \* per run id: test-finished events emitted
  tret,         \* the last response returned by a test command
  tout          \* per test process and stream: [written, read, eof], the lines
                \* written to the pipe, those emitted as test-output, thread ended

streamVars == <<tout>>
testVars == <<testProcs, tos, tcall, tmon, finished, tret, streamVars>>

VARIABLES
  ngrokState,   \* NgrokState: the pid of an ngrok process, 0 is None
  nos,          \* per ngrok process: [st, kills, lines], lines it wrote to stdout
  ncall,        \* per start_ngrok call: [pc, child, readn, late]
  nret,         \* per start_ngrok call: what it returned, "none" while it runs
  appiumState,  \* AppiumState: the Child (an OS process), 0 is None
  aos,          \* per Appium process: [st, kills, reaped]
  aret,         \* the last response returned by an Appium command
  aout          \* per Appium process and stream: the pipe and its output
                \* thread [written, read, emitted, pc]

ngrokVars == <<ngrokState, nos, ncall, nret>>
appiumOutVars == <<aout>>
appiumVars == <<appiumState, aos, aret, appiumOutVars>>
serviceVars == <<ngrokVars, appiumVars>>

VARIABLES
  mutex,        \* per mutex: the thread that holds it, NoThread when free
  at,           \* per thread: the source line it stands at; "idle" is a caller
                \* with no command, "off" a thread not started, "end" one ended
  running,      \* per caller: [cmd, unit], the command it runs and the unit
                \* it created or found in the registry
  lkey,         \* LogcatState, one device key: the unit registered, 0 is none
  lunit,        \* per unit: [flag, pkg], its stop flag and whether it filters
  lrun          \* TestState, one run id: whether it is registered

lockVars == <<mutex, at, running, lkey, lunit, lrun>>

vars == <<logcatVars, fileVars, lookupVars, pollVars, testVars, serviceVars, lockVars>>

Units == 1..Len(cfg)
OsProcs == 1..Len(os)

(***************************************************************************)
(* Lines.  A line is <<p, i, f>>: line i written by OS process p; the      *)
(* header pushed by start_logcat is <<0, device, output_file>>.            *)
(***************************************************************************)
HeaderLine(device, output_file) == <<0, device, output_file>>
OutLine(p, i) == <<p, i, 0>>

(***************************************************************************)
(* The buffer append of the reader thread: push, then evict the oldest     *)
(* block when the length exceeds the high-water mark.                      *)
(***************************************************************************)
PushEvictOne(b, l) ==
  LET b1 == Append(b, l)
  IN  IF Len(b1) > HighWater THEN SubSeq(b1, 2, Len(b1)) ELSE b1

PushFront(b, l) == <<l>> \o b

PushLine(b, l) ==
  LET b1 == Append(b, l)
  IN  IF Len(b1) > HighWater THEN SubSeq(b1, EvictBlock + 1, Len(b1)) ELSE b1

(***************************************************************************)
(* get_pid: pidof's trimmed output, then the oom_score_adj check.          *)
(*   pidof: [ok, pid]   ok = FALSE: the command could not be run           *)
(*                      pid = 0: empty output                              *)
(*   oom:   [ok, parsed, score]  ok: the cat command ran; parsed: i32      *)
(***************************************************************************)
PidofOutputs ==
  {[ok |-> FALSE, pid |-> 0]} \cup {[ok |-> TRUE, pid |-> p] : p \in {0} \cup Pids}

OomOutputs ==
  {[ok |-> FALSE, parsed |-> FALSE, score |-> 0],
   [ok |-> TRUE, parsed |-> FALSE, score |-> 0]}
  \cup {[ok |-> TRUE, parsed |-> TRUE, score |-> s] : s \in {0, CachedScore - 1, CachedScore, 1000}}

PidErr == [tag |-> "Err", pid |-> 0]
PidNone == [tag |-> "None", pid |-> 0]
PidSome(p) == [tag |-> "Some", pid |-> p]

GetPidIgnoresScore(pidof, oom) ==
  IF ~pidof.ok THEN PidErr
  ELSE IF pidof.pid = 0 THEN PidNone
  ELSE PidSome(pidof.pid)

get_pid(pidof, oom) ==
  IF ~pidof.ok THEN PidErr
  ELSE IF pidof.pid = 0 THEN PidNone
  ELSE IF oom.ok /\ oom.parsed /\ oom.score >= CachedScore THEN PidNone
  ELSE PidSome(pidof.pid)

\* every answer get_pid can give, over all outputs of the two adb commands
GetPidResults == {get_pid(pidof, oom) : pidof \in PidofOutputs, oom \in OomOutputs}

(***************************************************************************)
(* Queries of the logcat registry.                                         *)
(***************************************************************************)
contains_key(device) == procs[device] # 0

ActiveIfChild(device) == contains_key(device) /\ child[procs[device]] # 0

is_logcat_active(device) == contains_key(device)

get_logcat_details(device) ==
  IF contains_key(device)
  THEN [is_active |-> TRUE, output_file |-> cfg[procs[device]].output_file]
  ELSE [is_active |-> FALSE, output_file |-> 0]

FetchWhole(device, offset) ==
  IF contains_key(device)
  THEN [lines |-> buffer[procs[device]], new_offset |-> Len(buffer[procs[device]])]
  ELSE [lines |-> <<>>, new_offset |-> 0]

FetchSkipsHeader(device, offset) ==
  IF contains_key(device)
  THEN LET buf == Tail(buffer[procs[device]])
           len == Len(buf)
       IN  IF offset >= len
           THEN [lines |-> <<>>, new_offset |-> len]
           ELSE [lines |-> SubSeq(buf, offset + 1, len), new_offset |-> len]
  ELSE [lines |-> <<>>, new_offset |-> 0]

FetchMissingKeepsOffset(device, offset) ==
  IF contains_key(device)
  THEN LET buf == buffer[procs[device]]
           len == Len(buf)
       IN  IF offset >= len
           THEN [lines |-> <<>>, new_offset |-> len]
           ELSE [lines |-> SubSeq(buf, offset + 1, len), new_offset |-> len]
  ELSE [lines |-> <<>>, new_offset |-> offset]

fetch_logcat_buffer(device, offset) ==
  IF contains_key(device)
  THEN LET buf == buffer[procs[device]]
           len == Len(buf)
       IN  IF offset >= len
           THEN [lines |-> <<>>, new_offset |-> len]
           ELSE [lines |-> SubSeq(buf, offset + 1, len), new_offset |-> len]
  ELSE [lines |-> <<>>, new_offset |-> 0]

(***************************************************************************)
(* start_logcat: the whole command runs under the registry lock.           *)
(***************************************************************************)
AdmitAlways(device) == TRUE

Admit(device) == ~contains_key(device)

\* the value start_logcat returns
start_logcat_ret(device) ==
  IF ~Admit(device) THEN "Logcat already running" ELSE "Logcat started"

start_logcat(device, filter, output_file) ==
  /\ UNCHANGED <<os, relay>>
  /\ IF ~Admit(device)
     THEN UNCHANGED <<procs, cfg, should_stop, child, buffer, sup>>
     ELSE /\ Len(cfg) < MaxUnits
          /\ cfg' = Append(cfg, [device |-> device, pkg |-> filter, output_file |-> output_file])
          /\ buffer' = Append(buffer, <<HeaderLine(device, output_file)>>)
          /\ child' = Append(child, 0)
          /\ should_stop' = Append(should_stop, FALSE)
          /\ sup' = Append(sup, [pc |-> "loop", current_pid |-> 0, child_proc |-> 0])
          /\ procs' = [procs EXCEPT ![device] = Len(cfg) + 1]

StartLogcat ==
  /\ \E device \in Devices, a \in StartArgs : start_logcat(device, a[1], a[2])
  /\ UNCHANGED <<fileVars, lookupVars, pollVars, testVars, serviceVars, lockVars>>

(***************************************************************************)
(* Child::kill on OS process p: the signal is sent if p is still running;  *)
(* every call is counted.                                                  *)
(***************************************************************************)
Kill(o, p) ==
  [o EXCEPT ![p].st = IF @ = "running" THEN "killed" ELSE @,
            ![p].kills = @ + 1]

(***************************************************************************)
(* stop_logcat: remove the entry, set the stop flag, take the child out of *)
(* the slot and kill it.  Runs under the registry lock; the child mutex is *)
(* taken inside it.                                                        *)
(***************************************************************************)
TakeNoKill(u) ==
  /\ child' = [child EXCEPT ![u] = 0]
  /\ os' = os

KillNoTake(u) ==
  /\ child' = child
  /\ os' = IF child[u] # 0 THEN Kill(os, child[u]) ELSE os

TakeAndKill(u) ==
  /\ child' = [child EXCEPT ![u] = 0]
  /\ os' = IF child[u] # 0 THEN Kill(os, child[u]) ELSE os

Remove(device) == [procs EXCEPT ![device] = 0]

StopAffectsAll(u) == [v \in DOMAIN should_stop |-> TRUE]

SignalStop(u) == [should_stop EXCEPT ![u] = TRUE]

\* the value stop_logcat returns
stop_logcat_ret(device) ==
  IF contains_key(device) THEN "Logcat stopped" ELSE "Logcat not running"

stop_logcat(device) ==
  /\ UNCHANGED <<cfg, buffer, sup, relay>>
  /\ IF contains_key(device)
     THEN LET u == procs[device]
          IN  /\ procs' = Remove(device)
              /\ should_stop' = SignalStop(u)
              /\ TakeAndKill(u)
     ELSE UNCHANGED <<procs, should_stop, child, os>>

StopLogcat ==
  /\ \E device \in Devices : stop_logcat(device)
  /\ UNCHANGED <<fileVars, lookupVars, pollVars, testVars, serviceVars, lockVars>>

(***************************************************************************)
(* The supervisor thread of unit u, one action per step.                   *)
(***************************************************************************)
SupGoto(u, pc) == sup' = [sup EXCEPT ![u].pc = pc]

\* the head of the supervisor loop when get_pid, if it is called, answers r
SupLoopGot(u, r) ==
  /\ sup[u].pc = "loop"
  /\ UNCHANGED <<procs, cfg, should_stop, child, buffer, os, relay>>
  /\ IF should_stop[u]
     THEN SupGoto(u, "done")
     ELSE IF cfg[u].pkg
          THEN IF r.tag = "Some"
               THEN sup' = [sup EXCEPT ![u].pc = "spawn", ![u].current_pid = r.pid]
               ELSE sup' = [sup EXCEPT ![u].pc = "nopid", ![u].current_pid = 0]
          ELSE sup' = [sup EXCEPT ![u].pc = "spawn", ![u].current_pid = 0]

\* while !should_stop { resolve the pid if a package is given }
SupLoop(u) == \E r \in GetPidResults : SupLoopGot(u, r)

SupNoPidSpawns(u) ==
  /\ sup[u].pc = "nopid"
  /\ UNCHANGED <<procs, cfg, should_stop, child, buffer, os, relay>>
  /\ IF should_stop[u] THEN SupGoto(u, "done") ELSE SupGoto(u, "spawn")

\* a package filter but no pid: break if stopped, else sleep 1.5 s and continue
SupNoPid(u) ==
  /\ sup[u].pc = "nopid"
  /\ UNCHANGED <<procs, cfg, should_stop, child, buffer, os, relay>>
  /\ IF should_stop[u] THEN SupGoto(u, "done") ELSE SupGoto(u, "loop")

SupSpawnFatal(u) ==
  /\ sup[u].pc = "spawn"
  /\ UNCHANGED <<procs, cfg, should_stop, child, buffer>>
  /\ \/ /\ Len(os) < MaxProcs
        /\ os' = Append(os, [unit |-> u, pidarg |-> sup[u].current_pid,
                             st |-> "running", written |-> 0, kills |-> 0])
        /\ relay' = Append(relay, [pc |-> "unborn", readn |-> 0, fw |-> FALSE])
        /\ sup' = [sup EXCEPT ![u].pc = "store", ![u].child_proc = Len(os) + 1]
     \/ /\ SupGoto(u, "done")
        /\ UNCHANGED <<os, relay>>

\* cmd.spawn(): a new OS process, or an error followed by the 2 s sleep
SupSpawn(u) ==
  /\ sup[u].pc = "spawn"
  /\ UNCHANGED <<procs, cfg, should_stop, child, buffer>>
  /\ \/ /\ Len(os) < MaxProcs
        /\ os' = Append(os, [unit |-> u, pidarg |-> sup[u].current_pid,
                             st |-> "running", written |-> 0, kills |-> 0])
        /\ relay' = Append(relay, [pc |-> "unborn", readn |-> 0, fw |-> FALSE])
        /\ sup' = [sup EXCEPT ![u].pc = "store", ![u].child_proc = Len(os) + 1]
     \/ /\ SupGoto(u, "tail")
        /\ UNCHANGED <<os, relay>>

\* *lock = Some(child_proc); then the reader thread is spawned
SupStore(u) ==
  /\ sup[u].pc = "store"
  /\ UNCHANGED <<procs, cfg, should_stop, buffer, os>>
  /\ child' = [child EXCEPT ![u] = sup[u].child_proc]
  /\ relay' = [relay EXCEPT ![sup[u].child_proc].pc = "open"]
  /\ sup' = [sup EXCEPT ![u].pc = "mon", ![u].child_proc = 0]

SupMonIgnoresStop(u) ==
  /\ sup[u].pc = "mon"
  /\ UNCHANGED <<procs, cfg, should_stop, child, buffer, os, relay>>
  /\ SupGoto(u, "wait")

\* head of the monitor loop: break if stopped, else sleep 1 s
SupMon(u) ==
  /\ sup[u].pc = "mon"
  /\ UNCHANGED <<procs, cfg, should_stop, child, buffer, os, relay>>
  /\ IF should_stop[u] THEN SupGoto(u, "cleanup") ELSE SupGoto(u, "wait")

\* try_wait on the child in the slot, under the child mutex
ChildDead(u) == child[u] = 0 \/ os[child[u]].st # "running"

SupWaitChecksPid(u) ==
  /\ sup[u].pc = "wait"
  /\ UNCHANGED <<procs, cfg, should_stop, child, buffer, os, relay>>
  /\ IF ChildDead(u) THEN SupGoto(u, "cleanup") ELSE SupGoto(u, "pidchk")

SupWait(u) ==
  /\ sup[u].pc = "wait"
  /\ UNCHANGED <<procs, cfg, should_stop, child, buffer, os, relay>>
  /\ IF ChildDead(u)
     THEN SupGoto(u, "cleanup")
     ELSE IF cfg[u].pkg /\ sup[u].current_pid # 0
          THEN SupGoto(u, "pidchk")
          ELSE SupGoto(u, "mon")

VerdictAlwaysRestart(r, old_pid) == "restart"

\* the verdict of the identity check on a monitor tick
Verdict(r, old_pid) ==
  CASE r.tag = "Some" -> IF r.pid # old_pid THEN "restart" ELSE "no-action"
    [] r.tag = "None" -> "restart"
    [] r.tag = "Err"  -> "no-action"

\* the identity check of a monitor tick when get_pid answers r
SupPidChkGot(u, r) ==
  /\ sup[u].pc = "pidchk"
  /\ UNCHANGED <<procs, cfg, should_stop, buffer, relay>>
  /\ IF Verdict(r, sup[u].current_pid) = "restart"
     THEN /\ TakeAndKill(u)
          /\ SupGoto(u, "cleanup")
     ELSE /\ SupGoto(u, "mon")
          /\ UNCHANGED <<child, os>>

\* get_pid again; on a changed or missing pid take the child and kill it
SupPidChk(u) == \E r \in GetPidResults : SupPidChkGot(u, r)

\* *lock = None after the monitor loop
SupCleanup(u) ==
  /\ sup[u].pc = "cleanup"
  /\ UNCHANGED <<procs, cfg, should_stop, buffer, os, relay>>
  /\ child' = [child EXCEPT ![u] = 0]
  /\ SupGoto(u, "tail")

\* end of the loop body: without a filter, break if stopped, else sleep 1 s
SupTail(u) ==
  /\ sup[u].pc = "tail"
  /\ UNCHANGED <<procs, cfg, should_stop, child, buffer, os, relay>>
  /\ IF ~cfg[u].pkg /\ should_stop[u] THEN SupGoto(u, "done") ELSE SupGoto(u, "loop")

Supervisor ==
  /\ \E u \in Units :
       \/ SupLoop(u)
       \/ SupNoPid(u)
       \/ SupSpawn(u)
       \/ SupStore(u)
       \/ SupMon(u)
       \/ SupWait(u)
       \/ SupPidChk(u)
       \/ SupCleanup(u)
       \/ SupTail(u)
  /\ UNCHANGED <<fileVars, lookupVars, pollVars, testVars, serviceVars, lockVars>>

(***************************************************************************)
(* The supervisor with its calls of get_pid recorded: lookups is the list  *)
(* of the calls made so far, each with the unit, the place of the call     *)
(* ("loop": resolving at the loop head, "pidchk": a monitor tick) and the  *)
(* answer.                                                                 *)
(***************************************************************************)
\* the next step of unit u's supervisor calls get_pid
SupLooks(u) ==
  \/ sup[u].pc = "loop" /\ ~should_stop[u] /\ cfg[u].pkg
  \/ sup[u].pc = "pidchk"

Lookup(u, r) == [unit |-> u, at |-> sup[u].pc, ans |-> r]

SupervisorLooks ==
  /\ \E u \in Units :
       /\ SupLooks(u)
       /\ Len(lookups) < MaxLookups
       /\ \E r \in GetPidResults :
            /\ SupLoopGot(u, r) \/ SupPidChkGot(u, r)
            /\ lookups' = Append(lookups, Lookup(u, r))
  /\ UNCHANGED <<fileVars, pollVars, testVars, serviceVars, lockVars>>

\* the same with the outputs of the two adb commands of get_pid recorded
Sample(u, pidof, oom) ==
  [unit |-> u, at |-> sup[u].pc, ans |-> get_pid(pidof, oom),
   pidof |-> pidof, oom |-> oom]

SupervisorSamples ==
  /\ \E u \in Units :
       /\ SupLooks(u)
       /\ Len(lookups) < MaxSamples
       /\ \E pidof \in PidofOutputs, oom \in OomOutputs :
            /\ \/ SupLoopGot(u, get_pid(pidof, oom))
               \/ SupPidChkGot(u, get_pid(pidof, oom))
            /\ lookups' = Append(lookups, Sample(u, pidof, oom))
  /\ UNCHANGED <<fileVars, pollVars, testVars, serviceVars, lockVars>>

SupervisorSteps ==
  /\ \E u \in Units :
       /\ ~SupLooks(u)
       /\ \/ SupLoop(u)
          \/ SupNoPid(u)
          \/ SupSpawn(u)
          \/ SupStore(u)
          \/ SupMon(u)
          \/ SupWait(u)
          \/ SupCleanup(u)
          \/ SupTail(u)
  /\ UNCHANGED <<fileVars, lookupVars, pollVars, testVars, serviceVars, lockVars>>

(***************************************************************************)
(* The adb logcat process p: it writes stdout lines and may exit by itself.*)
(***************************************************************************)
ProcWrite(p) ==
  /\ os[p].st = "running"
  /\ os' = [os EXCEPT ![p].written = @ + 1]
  /\ UNCHANGED <<procs, cfg, should_stop, child, buffer, sup, relay>>
  /\ UNCHANGED <<fileVars, lookupVars, pollVars, testVars, serviceVars, lockVars>>

ProcExit(p) ==
  /\ os[p].st = "running"
  /\ os' = [os EXCEPT ![p].st = "exited"]
  /\ UNCHANGED <<procs, cfg, should_stop, child, buffer, sup, relay>>
  /\ UNCHANGED <<fileVars, lookupVars, pollVars, testVars, serviceVars, lockVars>>

(***************************************************************************)
(* The reader thread of process p.  It opens the output file, if one was   *)
(* given, in create-and-append mode (a failed open leaves it without a     *)
(* writer); reader.lines() blocks until a line is there or the pipe is     *)
(* closed; the stop flag is read after each line; the line is written to   *)
(* the file first and pushed to the buffer, under the buffer lock, after.  *)
(***************************************************************************)
RelayOpen(p) ==
  /\ relay[p].pc = "open"
  /\ UNCHANGED <<procs, cfg, should_stop, child, buffer, sup, os>>
  /\ UNCHANGED <<fileVars, lookupVars, pollVars, testVars, serviceVars, lockVars>>
  /\ \E opened \in IF cfg[os[p].unit].output_file # 0 THEN {TRUE, FALSE} ELSE {FALSE} :
       relay' = [relay EXCEPT ![p].pc = "read", ![p].fw = opened]

RelayRead(p) ==
  /\ relay[p].pc = "read"
  /\ UNCHANGED <<procs, cfg, should_stop, child, buffer, sup, os>>
  /\ UNCHANGED <<fileVars, lookupVars, pollVars, testVars, serviceVars, lockVars>>
  /\ IF relay[p].readn < os[p].written
     THEN IF should_stop[os[p].unit]
          THEN relay' = [relay EXCEPT ![p].pc = "done"]
          ELSE relay' = [relay EXCEPT ![p].pc = IF relay[p].fw THEN "file" ELSE "push",
                                      ![p].readn = @ + 1]
     ELSE /\ os[p].st # "running"
          /\ relay' = [relay EXCEPT ![p].pc = "done"]

RelayFileWritesNothing(p) ==
  /\ relay[p].pc = "file"
  /\ UNCHANGED <<procs, cfg, should_stop, child, buffer, sup, os>>
  /\ UNCHANGED <<lookupVars, pollVars, testVars, serviceVars, lockVars>>
  /\ mirror' = mirror
  /\ relay' = [relay EXCEPT ![p].pc = "push"]

RelayFile(p) ==
  /\ relay[p].pc = "file"
  /\ UNCHANGED <<procs, cfg, should_stop, child, buffer, sup, os>>
  /\ UNCHANGED <<lookupVars, pollVars, testVars, serviceVars, lockVars>>
  /\ mirror' = Append(mirror, OutLine(p, relay[p].readn))
  /\ relay' = [relay EXCEPT ![p].pc = "push"]

\* a reader thread that finds the buffer through the registry entry of its
\* device key
RelayPushByKey(p) ==
  /\ relay[p].pc = "push"
  /\ UNCHANGED <<procs, cfg, should_stop, child, sup, os>>
  /\ UNCHANGED <<fileVars, lookupVars, pollVars, testVars, serviceVars, lockVars>>
  /\ LET u == procs[cfg[os[p].unit].device]
     IN  buffer' = IF u = 0 THEN buffer
                   ELSE [buffer EXCEPT ![u] = PushLine(@, OutLine(p, relay[p].readn))]
  /\ relay' = [relay EXCEPT ![p].pc = "read"]

RelayPush(p) ==
  /\ relay[p].pc = "push"
  /\ UNCHANGED <<procs, cfg, should_stop, child, sup, os>>
  /\ UNCHANGED <<fileVars, lookupVars, pollVars, testVars, serviceVars, lockVars>>
  /\ buffer' = [buffer EXCEPT ![os[p].unit] = PushLine(@, OutLine(p, relay[p].readn))]
  /\ relay' = [relay EXCEPT ![p].pc = "read"]

(***************************************************************************)
(* A client of one device that polls fetch_logcat_buffer and passes each   *)
(* new_offset into its next call.                                          *)
(***************************************************************************)
ClientPoll(device) ==
  /\ LET r == fetch_logcat_buffer(device, client[device].off)
     IN  client' = [client EXCEPT ![device] =
                      [off |-> r.new_offset, got |-> @.got \o r.lines]]
  /\ UNCHANGED query
  /\ UNCHANGED <<logcatVars, fileVars, lookupVars, testVars, serviceVars, lockVars>>

(***************************************************************************)
(* The query commands, called with any key and offset.  Each takes the     *)
(* registry lock (fetch_logcat_buffer the buffer lock too), reads, and     *)
(* answers.                                                                *)
(***************************************************************************)
QueryOffsets == 0..(MaxStream + 2)

\* the response record, before a command fills in its fields
NoQuery ==
  [op |-> "none", device |-> 0, offset |-> 0,
   is_active |-> FALSE, output_file |-> 0, lines |-> <<>>, new_offset |-> 0]

IsLogcatActive(device) ==
  /\ query' = [NoQuery EXCEPT !.op = "is_logcat_active", !.device = device,
                              !.is_active = is_logcat_active(device)]
  /\ UNCHANGED client
  /\ UNCHANGED <<logcatVars, fileVars, lookupVars, testVars, serviceVars, lockVars>>

GetLogcatDetails(device) ==
  /\ LET r == get_logcat_details(device)
     IN  query' = [NoQuery EXCEPT !.op = "get_logcat_details", !.device = device,
                                 !.is_active = r.is_active,
                                 !.output_file = r.output_file]
  /\ UNCHANGED client
  /\ UNCHANGED <<logcatVars, fileVars, lookupVars, testVars, serviceVars, lockVars>>

FetchLogcatBuffer(device, offset) ==
  /\ LET r == fetch_logcat_buffer(device, offset)
     IN  query' = [NoQuery EXCEPT !.op = "fetch_logcat_buffer", !.device = device,
                                 !.offset = offset,
                                 !.lines = r.lines, !.new_offset = r.new_offset]
  /\ UNCHANGED client
  /\ UNCHANGED <<logcatVars, fileVars, lookupVars, testVars, serviceVars, lockVars>>

Query ==
  \E device \in Devices :
    \/ IsLogcatActive(device)
    \/ GetLogcatDetails(device)
    \/ \E offset \in QueryOffsets : FetchLogcatBuffer(device, offset)

(***************************************************************************)
(* The test runner (runner.rs).  spawn_and_monitor spawns the process      *)
(* first and takes the registry lock afterwards: RunSpawn is the call up   *)
(* to the spawn, RunAdmit its critical section.                            *)
(***************************************************************************)
TestProcs == 1..Len(tos)

TOk(op, r, msg) == [op |-> op, run_id |-> r, ok |-> TRUE, res |-> msg]
TErr(op, r, msg) == [op |-> op, run_id |-> r, ok |-> FALSE, res |-> msg]

Streams == {"stdout", "stderr"}

\* a pipe nothing has been written to, its streaming thread at work
NoOutput == [written |-> 0, read |-> 0, eof |-> FALSE]

\* cmd.spawn() of spawn_and_monitor: on success the process runs, its two
\* streaming threads are started and the call goes on to the registry lock;
\* on failure the call returns the error
RunSpawn(r) ==
  /\ UNCHANGED <<testProcs, finished>>
  /\ \/ /\ Len(tos) < MaxTestProcs
        /\ tos' = Append(tos, [run |-> r, st |-> "running", kills |-> 0, reaped |-> FALSE])
        /\ tmon' = Append(tmon, [pc |-> "none", rid |-> r])
        /\ tout' = Append(tout, [s \in Streams |-> NoOutput])
        /\ tcall' = tcall \cup {Len(tos) + 1}
        /\ tret' = tret
     \/ /\ tret' = TErr("run", r, "Failed to spawn process")
        /\ UNCHANGED <<tos, tmon, tcall, tout>>
  /\ UNCHANGED <<logcatVars, fileVars, lookupVars, pollVars, serviceVars, lockVars>>

\* the critical section of spawn_and_monitor: refuse an existing run id
\* (the Child is dropped, the process is not killed), else insert the child
\* and start its monitoring thread
RunAdmit(p) ==
  /\ p \in tcall
  /\ tcall' = tcall \ {p}
  /\ UNCHANGED <<tos, finished>>
  /\ IF testProcs[tos[p].run] # 0
     THEN /\ tret' = TErr("run", tos[p].run, "Run ID already exists")
          /\ UNCHANGED <<testProcs, tmon>>
     ELSE /\ testProcs' = [testProcs EXCEPT ![tos[p].run] = p]
          /\ tmon' = [tmon EXCEPT ![p].pc = "poll"]
          /\ tret' = TOk("run", tos[p].run, "Started")
  /\ UNCHANGED streamVars
  /\ UNCHANGED <<logcatVars, fileVars, lookupVars, pollVars, serviceVars, lockVars>>

\* kill -9 <pid> (taskkill /F /T on Windows) and Child::kill on process p
TKill(t, p) ==
  [t EXCEPT ![p].st = IF @ = "running" THEN "killed" ELSE @,
            ![p].kills = @ + 1]

StopRemoves(r) == [testProcs EXCEPT ![r] = 0]

\* the registry after stop_test found the run: get_mut, the entry stays
StopKeeps(r) == testProcs

StopMissingOk(r) == TOk("stop_test", r, "Test not running")

\* what stop_test returns for a run id that is not in the registry
StopMissing(r) == TErr("stop_test", r, "Test not running")

stop_test(r) ==
  /\ UNCHANGED <<tcall, tmon, finished>>
  /\ IF testProcs[r] # 0
     THEN /\ tos' = TKill(tos, testProcs[r])
          /\ testProcs' = StopKeeps(r)
          /\ tret' = TOk("stop_test", r, "Test stopped")
     ELSE /\ tret' = StopMissing(r)
          /\ UNCHANGED <<testProcs, tos>>

StopTest ==
  /\ \E r \in RunIds :
       /\ testProcs[r] # 0 => tos[testProcs[r]].kills < MaxKills
       /\ stop_test(r)
  /\ UNCHANGED streamVars
  /\ UNCHANGED <<logcatVars, fileVars, lookupVars, pollVars, serviceVars, lockVars>>

RECURSIVE KillAll(_, _)
KillAll(t, ps) ==
  IF ps = {} THEN t
  ELSE LET p == CHOOSE q \in ps : TRUE IN KillAll(TKill(t, p), ps \ {p})

\* shutdown_all_tests: kill every child in the registry, then clear it
shutdown_all_tests ==
  /\ tos' = KillAll(tos, {testProcs[r] : r \in RunIds} \ {0})
  /\ testProcs' = [r \in RunIds |-> 0]
  /\ UNCHANGED <<tcall, tmon, finished, tret>>
  /\ UNCHANGED streamVars
  /\ UNCHANGED <<logcatVars, fileVars, lookupVars, pollVars, serviceVars, lockVars>>

\* a monitoring thread that leaves the entry of a child it has reaped in
\* the registry
MonitorTickKeepsEntry(p) ==
  /\ tmon[p].pc = "poll"
  /\ UNCHANGED <<tcall, finished, tret, testProcs>>
  /\ LET q == testProcs[tmon[p].rid]
     IN  IF q = 0
         THEN /\ tmon' = [tmon EXCEPT ![p].pc = "done"]
              /\ UNCHANGED tos
         ELSE IF tos[q].st # "running"
              THEN /\ tos' = [tos EXCEPT ![q].reaped = TRUE]
                   /\ tmon' = [tmon EXCEPT ![p].pc = "emit"]
              ELSE UNCHANGED <<tos, tmon>>
  /\ UNCHANGED streamVars
  /\ UNCHANGED <<logcatVars, fileVars, lookupVars, pollVars, serviceVars, lockVars>>

\* one tick of the monitoring thread started for process p: under the
\* registry lock, try_wait on the child registered under its run id
MonitorTick(p) ==
  /\ tmon[p].pc = "poll"
  /\ UNCHANGED <<tcall, finished, tret>>
  /\ LET q == testProcs[tmon[p].rid]
     IN  IF q = 0
         THEN /\ tmon' = [tmon EXCEPT ![p].pc = "done"]
              /\ UNCHANGED <<testProcs, tos>>
         ELSE IF tos[q].st # "running"
              THEN /\ tos' = [tos EXCEPT ![q].reaped = TRUE]
                   /\ testProcs' = [testProcs EXCEPT ![tmon[p].rid] = 0]
                   /\ tmon' = [tmon EXCEPT ![p].pc = "emit"]
              ELSE UNCHANGED <<testProcs, tos, tmon>>
  /\ UNCHANGED streamVars
  /\ UNCHANGED <<logcatVars, fileVars, lookupVars, pollVars, serviceVars, lockVars>>

MonitorEmitTwice(p) ==
  /\ tmon[p].pc = "emit"
  /\ finished' = [finished EXCEPT ![tmon[p].rid] = @ + 2]
  /\ tmon' = [tmon EXCEPT ![p].pc = "done"]
  /\ UNCHANGED <<testProcs, tos, tcall, tret>>
  /\ UNCHANGED streamVars
  /\ UNCHANGED <<logcatVars, fileVars, lookupVars, pollVars, serviceVars, lockVars>>

\* after the lock is dropped: emit test-finished for the run id
MonitorEmit(p) ==
  /\ tmon[p].pc = "emit"
  /\ finished' = [finished EXCEPT ![tmon[p].rid] = @ + 1]
  /\ tmon' = [tmon EXCEPT ![p].pc = "done"]
  /\ UNCHANGED <<testProcs, tos, tcall, tret>>
  /\ UNCHANGED streamVars
  /\ UNCHANGED <<logcatVars, fileVars, lookupVars, pollVars, serviceVars, lockVars>>

\* the test process ends by itself
TestExit(p) ==
  /\ tos[p].st = "running"
  /\ tos' = [tos EXCEPT ![p].st = "exited"]
  /\ UNCHANGED <<testProcs, tcall, tmon, finished, tret>>
  /\ UNCHANGED streamVars
  /\ UNCHANGED <<logcatVars, fileVars, lookupVars, pollVars, serviceVars, lockVars>>

\* the test process writes a line to its stdout or stderr
TestWrite(p, s) ==
  /\ tos[p].st = "running"
  /\ tout[p][s].written < MaxOut
  /\ tout' = [tout EXCEPT ![p][s].written = @ + 1]
  /\ UNCHANGED <<testProcs, tos, tcall, tmon, finished, tret>>
  /\ UNCHANGED <<logcatVars, fileVars, lookupVars, pollVars, serviceVars, lockVars>>

\* one turn of a streaming thread: read_until blocks until a line is in
\* the pipe, which is emitted as a test-output event, or the pipe is closed,
\* which ends the thread
StreamRead(p, s) ==
  /\ ~tout[p][s].eof
  /\ IF tout[p][s].read < tout[p][s].written
     THEN tout' = [tout EXCEPT ![p][s].read = @ + 1]
     ELSE /\ tos[p].st # "running"
          /\ tout' = [tout EXCEPT ![p][s].eof = TRUE]
  /\ UNCHANGED <<testProcs, tos, tcall, tmon, finished, tret>>
  /\ UNCHANGED <<logcatVars, fileVars, lookupVars, pollVars, serviceVars, lockVars>>

(***************************************************************************)
(* The tunnel service (ngrok.rs).  NgrokState holds a pid.  start_ngrok    *)
(* takes the lock twice, once to kill and clear the recorded pid and once  *)
(* to record the pid of the process it spawned, and then reads the         *)
(* process's stdout line by line; the elapsed time is looked at only when  *)
(* a line has arrived.                                                     *)
(***************************************************************************)
NgrokProcs == 1..Len(nos)
NgrokCalls == 1..Len(ncall)
NgrokLineKinds == {"url", "log"}   \* a line with "url=<nonempty>", any other line

NgrokKillNothing(n, p) == n

\* kill <pid> (taskkill /F /PID), pkill ngrok, or Child::kill on process p
NgrokKill(n, p) ==
  [n EXCEPT ![p].st = IF @ = "running" THEN "killed" ELSE @,
            ![p].kills = @ + 1]

RECURSIVE NgrokKillAll(_, _)
NgrokKillAll(n, ps) ==
  IF ps = {} THEN n
  ELSE LET p == CHOOSE q \in ps : TRUE IN NgrokKillAll(NgrokKill(n, p), ps \ {p})

NgrokGoto(c, pc) == ncall' = [ncall EXCEPT ![c].pc = pc]

NgrokReturn(c, r) ==
  /\ nret' = [nret EXCEPT ![c] = r]
  /\ ncall' = [ncall EXCEPT ![c].pc = "done"]

\* a start_ngrok call arrives; setting the auth token, if one is given,
\* can fail, and the call returns that error
NgrokBegin ==
  /\ Len(ncall) < MaxNgrokCalls
  /\ \E token_ok \in BOOLEAN :
       /\ ncall' = Append(ncall, [pc |-> IF token_ok THEN "stop" ELSE "done",
                                  child |-> 0, readn |-> 0, late |-> FALSE])
       /\ nret' = Append(nret, IF token_ok THEN "none" ELSE "Failed to set authtoken")
  /\ UNCHANGED <<ngrokState, nos>>
  /\ UNCHANGED <<logcatVars, fileVars, lookupVars, pollVars, testVars, appiumVars, lockVars>>

\* under the lock: kill the recorded pid, if any, and clear the state
NgrokStopExisting(c) ==
  /\ ncall[c].pc = "stop"
  /\ IF ngrokState # 0
     THEN nos' = NgrokKill(nos, ngrokState) /\ ngrokState' = 0
     ELSE UNCHANGED <<nos, ngrokState>>
  /\ NgrokGoto(c, "spawn")
  /\ UNCHANGED nret
  /\ UNCHANGED <<logcatVars, fileVars, lookupVars, pollVars, testVars, appiumVars, lockVars>>

\* child_cmd.spawn(), outside the lock
NgrokSpawn(c) ==
  /\ ncall[c].pc = "spawn"
  /\ \/ /\ Len(nos) < MaxNgrokProcs
        /\ nos' = Append(nos, [st |-> "running", kills |-> 0, lines |-> <<>>])
        /\ ncall' = [ncall EXCEPT ![c].pc = "store", ![c].child = Len(nos) + 1]
        /\ UNCHANGED nret
     \/ /\ NgrokReturn(c, "Failed to start ngrok")
        /\ UNCHANGED nos
  /\ UNCHANGED ngrokState
  /\ UNCHANGED <<logcatVars, fileVars, lookupVars, pollVars, testVars, appiumVars, lockVars>>

\* under the lock: record the pid of the spawned child; the clock starts
NgrokStore(c) ==
  /\ ncall[c].pc = "store"
  /\ ngrokState' = ncall[c].child
  /\ NgrokGoto(c, "read")
  /\ UNCHANGED <<nos, nret>>
  /\ UNCHANGED <<logcatVars, fileVars, lookupVars, pollVars, testVars, appiumVars, lockVars>>

\* more than 10 seconds have passed since the call started reading
NgrokClock(c) ==
  /\ ncall[c].pc = "read"
  /\ ~ncall[c].late
  /\ ncall' = [ncall EXCEPT ![c].late = TRUE]
  /\ UNCHANGED <<ngrokState, nos, nret>>
  /\ UNCHANGED <<logcatVars, fileVars, lookupVars, pollVars, testVars, appiumVars, lockVars>>

\* one turn of `for line in reader.lines()`: the read blocks until the
\* child has written a line or its stdout is closed
NgrokRead(c) ==
  /\ ncall[c].pc = "read"
  /\ UNCHANGED ngrokState
  /\ UNCHANGED <<logcatVars, fileVars, lookupVars, pollVars, testVars, appiumVars, lockVars>>
  /\ LET p == ncall[c].child
     IN  IF ncall[c].readn < Len(nos[p].lines)
         THEN IF ncall[c].late
              THEN /\ nos' = NgrokKill(nos, p)
                   /\ NgrokReturn(c, "Timed out waiting for ngrok URL")
              ELSE /\ UNCHANGED nos
                   /\ IF nos[p].lines[ncall[c].readn + 1] = "url"
                      THEN NgrokReturn(c, "url")
                      ELSE /\ ncall' = [ncall EXCEPT ![c].readn = @ + 1]
                           /\ UNCHANGED nret
         ELSE /\ nos[p].st # "running"
              /\ UNCHANGED nos
              /\ NgrokReturn(c, "Ngrok process finished without URL")

\* stop_ngrok: under the lock kill the recorded pid and clear the state;
\* then kill every ngrok process by name
stop_ngrok ==
  /\ ngrokState' = 0
  /\ nos' = NgrokKillAll(IF ngrokState # 0 THEN NgrokKill(nos, ngrokState) ELSE nos,
                         {p \in NgrokProcs : nos[p].st = "running" /\ p # ngrokState})
  /\ UNCHANGED <<ncall, nret>>
  /\ UNCHANGED <<logcatVars, fileVars, lookupVars, pollVars, testVars, appiumVars, lockVars>>

\* the ngrok process writes a line to its stdout
NgrokWrite(p) ==
  /\ nos[p].st = "running"
  /\ Len(nos[p].lines) < MaxNgrokLines
  /\ \E k \in NgrokLineKinds : nos' = [nos EXCEPT ![p].lines = Append(@, k)]
  /\ UNCHANGED <<ngrokState, ncall, nret>>
  /\ UNCHANGED <<logcatVars, fileVars, lookupVars, pollVars, testVars, appiumVars, lockVars>>

\* the ngrok process ends by itself
NgrokExit(p) ==
  /\ nos[p].st = "running"
  /\ nos' = [nos EXCEPT ![p].st = "exited"]
  /\ UNCHANGED <<ngrokState, ncall, nret>>
  /\ UNCHANGED <<logcatVars, fileVars, lookupVars, pollVars, testVars, appiumVars, lockVars>>

(***************************************************************************)
(* The Appium server (appium.rs).  AppiumState holds the Child; each       *)
(* command runs entirely under its lock.                                   *)
(***************************************************************************)
AppiumProcs == 1..Len(aos)

AResp(op, res, pid) == [op |-> op, res |-> res, pid |-> pid]

AppiumNeverBusy == FALSE

\* the slot holds a child and try_wait reports it still running
AppiumBusy == appiumState # 0 /\ aos[appiumState].st = "running"

\* a pipe nothing has been written to, its output thread reading
NoAppiumOutput == [written |-> <<>>, read |-> 0, emitted |-> 0, pc |-> "read"]

start_appium_server ==
  /\ IF AppiumBusy
     THEN /\ aret' = AResp("start_appium_server", "Appium is already running", 0)
          /\ UNCHANGED <<appiumState, aos, aout>>
     ELSE \/ /\ Len(aos) < MaxAppium
             /\ aos' = Append(IF appiumState # 0
                                THEN [aos EXCEPT ![appiumState].reaped = TRUE]
                                ELSE aos,
                              [st |-> "running", kills |-> 0, reaped |-> FALSE])
             /\ appiumState' = Len(aos) + 1
             /\ aout' = Append(aout, [s \in Streams |-> NoAppiumOutput])
             /\ aret' = AResp("start_appium_server", "Appium started", 0)
          \/ /\ aret' = AResp("start_appium_server", "Failed to start appium", 0)
             /\ aos' = IF appiumState # 0
                        THEN [aos EXCEPT ![appiumState].reaped = TRUE]
                        ELSE aos
             /\ UNCHANGED <<appiumState, aout>>
  /\ UNCHANGED <<logcatVars, fileVars, lookupVars, pollVars, testVars, ngrokVars, lockVars>>

\* take the child out of the slot, kill it and wait for it
stop_appium_server ==
  /\ IF appiumState # 0
     THEN /\ aos' = [aos EXCEPT ![appiumState].st = IF @ = "running" THEN "killed" ELSE @,
                                ![appiumState].kills = @ + 1,
                                ![appiumState].reaped = TRUE]
          /\ appiumState' = 0
          /\ aret' = AResp("stop_appium_server", "Appium stopped", 0)
     ELSE /\ aret' = AResp("stop_appium_server", "Appium was not running", 0)
          /\ UNCHANGED <<appiumState, aos>>
  /\ UNCHANGED appiumOutVars
  /\ UNCHANGED <<logcatVars, fileVars, lookupVars, pollVars, testVars, ngrokVars, lockVars>>

\* try_wait on the child in the slot; an exited child is cleared
get_appium_status ==
  /\ IF appiumState # 0
     THEN IF aos[appiumState].st = "running"
          THEN /\ aret' = AResp("get_appium_status", "running", appiumState)
               /\ UNCHANGED <<appiumState, aos>>
          ELSE /\ aret' = AResp("get_appium_status", "not running", 0)
               /\ aos' = [aos EXCEPT ![appiumState].reaped = TRUE]
               /\ appiumState' = 0
     ELSE /\ aret' = AResp("get_appium_status", "not running", 0)
          /\ UNCHANGED <<appiumState, aos>>
  /\ UNCHANGED appiumOutVars
  /\ UNCHANGED <<logcatVars, fileVars, lookupVars, pollVars, testVars, ngrokVars, lockVars>>

\* the Appium process ends by itself
AppiumExit(p) ==
  /\ aos[p].st = "running"
  /\ aos' = [aos EXCEPT ![p].st = "exited"]
  /\ UNCHANGED <<appiumState, aret>>
  /\ UNCHANGED appiumOutVars
  /\ UNCHANGED <<logcatVars, fileVars, lookupVars, pollVars, testVars, ngrokVars, lockVars>>

\* what a line in a pipe is to reader.lines(): text, or bytes that are not
\* valid UTF-8, for which the read returns an error
AppiumLineKinds == {"text", "bad"}

\* the Appium process writes a line to its stdout or stderr
AppiumWrite(p, s) ==
  /\ aos[p].st = "running"
  /\ Len(aout[p][s].written) < MaxAppiumOut
  /\ \E k \in AppiumLineKinds :
       aout' = [aout EXCEPT ![p][s].written = Append(@, k)]
  /\ UNCHANGED <<appiumState, aos, aret>>
  /\ UNCHANGED <<logcatVars, fileVars, lookupVars, pollVars, testVars, ngrokVars, lockVars>>

\* one turn of `for line in reader.lines()` of an output thread: the read
\* blocks until a line is in the pipe or the pipe is closed; an Ok line is
\* emitted as appium-output, an Err item is passed over and the loop goes
\* on; the end of the stream ends the thread
AppiumRead(p, s) ==
  /\ aout[p][s].pc = "read"
  /\ IF aout[p][s].read < Len(aout[p][s].written)
     THEN IF aout[p][s].written[aout[p][s].read + 1] = "text"
          THEN aout' = [aout EXCEPT ![p][s].read = @ + 1, ![p][s].emitted = @ + 1]
          ELSE aout' = [aout EXCEPT ![p][s].read = @ + 1]
     ELSE /\ aos[p].st # "running"
          /\ aout' = [aout EXCEPT ![p][s].pc = "done"]
  /\ UNCHANGED <<appiumState, aos, aret>>
  /\ UNCHANGED <<logcatVars, fileVars, lookupVars, pollVars, testVars, ngrokVars, lockVars>>

(***************************************************************************)
(* The locks.  Every thread is followed from one lock operation, blocking  *)
(* call or registry operation to the next: `at` is the source line a       *)
(* thread stands at, and the instruction at that line says what the        *)
(* thread does next (lock or unlock a mutex, sleep, run an external        *)
(* command, spawn a process, read a pipe, change the registry) and where   *)
(* it can go from there.  A guard is unlocked where it goes out of scope.  *)
(* Labels: L is logcat.rs, R runner.rs, A appium.rs, N ngrok.rs.           *)
(***************************************************************************)
NoThread == <<"none", 0>>
CallerThreads == {<<"call", c>> : c \in 1..MaxCallers}
SupThreads == {<<"sup", u>> : u \in 1..MaxLockUnits}
RelayThreads == {<<"relay", u>> : u \in 1..MaxLockUnits}
MonitorThreads == {<<"monitor", 1>>}
Threads == CallerThreads \cup SupThreads \cup RelayThreads \cup MonitorThreads

NoLock == <<"none", 0>>
LogcatStateLock == <<"LogcatState", 0>>
TestStateLock == <<"TestState", 0>>
AppiumStateLock == <<"AppiumState", 0>>
NgrokStateLock == <<"NgrokState", 0>>
ChildLock(u) == <<"child", u>>
BufferLock(u) == <<"buffer", u>>
RegistryLocks == {LogcatStateLock, TestStateLock, AppiumStateLock, NgrokStateLock}
Locks ==
  RegistryLocks \cup {ChildLock(u) : u \in 1..MaxLockUnits}
                \cup {BufferLock(u) : u \in 1..MaxLockUnits}

LogcatCommands ==
  {"start_logcat", "stop_logcat", "is_logcat_active", "get_logcat_details",
   "fetch_logcat_buffer"}
TestCommands == {"spawn_and_monitor", "stop_test", "shutdown_all_tests"}
ServiceCommands ==
  {"get_appium_status", "start_appium_server", "stop_appium_server",
   "start_ngrok", "stop_ngrok"}

\* the line a command starts at
Entry(c) ==
  CASE c = "start_logcat" -> "L34"
    [] c = "stop_logcat" -> "L297"
    [] c = "is_logcat_active" -> "L317"
    [] c = "get_logcat_details" -> "L332"
    [] c = "fetch_logcat_buffer" -> "L353"
    [] c = "spawn_and_monitor" -> "R362"
    [] c = "stop_test" -> "R14"
    [] c = "shutdown_all_tests" -> "R43"
    [] c = "get_appium_status" -> "A16"
    [] c = "start_appium_server" -> "A47"
    [] c = "stop_appium_server" -> "A129"
    [] c = "start_ngrok" -> "N21"
    [] c = "stop_ngrok" -> "N107"

\* an instruction: what is done, on which lock, and the lines that can follow
I(op, lock, next) == [op |-> op, lock |-> lock, next |-> next]
Halt == I("none", NoLock, {})

\* start_logcat, run by a caller whose new unit is u
StartLogcatCode(l, u) ==
  CASE l = "L34" -> I("lock", LogcatStateLock, {"L36"})
    [] l = "L36" -> IF lkey # 0 THEN I("local", NoLock, {"L37"})
                                ELSE I("admit", NoLock, {"L45"})
    [] l = "L37" -> I("unlock", LogcatStateLock, {"idle"})
    [] l = "L45" -> I("lock", BufferLock(u), {"L46"})
    [] l = "L46" -> I("unlock", BufferLock(u), {"L68"})
    [] l = "L68" -> I("fork_supervisor", NoLock, {"L251"})
    [] l = "L251" -> I("insert", NoLock, {"L258"})
    [] l = "L258" -> I("unlock", LogcatStateLock, {"idle"})
    [] OTHER -> Halt

\* stop_logcat; u is the unit it removed
StopLogcatCode(l, u) ==
  CASE l = "L297" -> I("lock", LogcatStateLock, {"L299"})
    [] l = "L299" -> IF lkey # 0 THEN I("remove", NoLock, {"L301"})
                                 ELSE I("local", NoLock, {"L312"})
    [] l = "L301" -> I("store_flag", NoLock, {"L304"})
    [] l = "L304" -> I("lock", ChildLock(u), {"L305"})
    [] l = "L305" -> I("kill", NoLock, {"L309"})
    [] l = "L309" -> I("unlock", ChildLock(u), {"L310"})
    [] l = "L310" -> I("unlock", LogcatStateLock, {"idle"})
    [] l = "L312" -> I("unlock", LogcatStateLock, {"idle"})
    [] OTHER -> Halt

IsLogcatActiveCode(l) ==
  CASE l = "L317" -> I("lock", LogcatStateLock, {"L318"})
    [] l = "L318" -> I("unlock", LogcatStateLock, {"idle"})
    [] OTHER -> Halt

GetLogcatDetailsCode(l) ==
  CASE l = "L332" -> I("lock", LogcatStateLock, {"L334"})
    [] l = "L334" -> I("unlock", LogcatStateLock, {"idle"})
    [] OTHER -> Halt

\* fetch_logcat_buffer; u is the unit it found
FetchLogcatBufferCode(l, u) ==
  CASE l = "L353" -> I("lock", LogcatStateLock, {"L355"})
    [] l = "L355" -> IF lkey # 0 THEN I("get", NoLock, {"L356"})
                                 ELSE I("local", NoLock, {"L366"})
    [] l = "L356" -> I("lock", BufferLock(u), {"L358"})
    [] l = "L358" -> I("unlock", BufferLock(u), {"L367"})
    [] l = "L367" -> I("unlock", LogcatStateLock, {"idle"})
    [] l = "L366" -> I("unlock", LogcatStateLock, {"idle"})
    [] OTHER -> Halt

\* the supervisor thread of unit u
SupervisorCode(l, u) ==
  CASE l = "L74" -> I("local", NoLock,
                      IF lunit[u].flag THEN {"end"}
                      ELSE IF lunit[u].pkg THEN {"L80"} ELSE {"L120"})
    [] l = "L80" -> I("get_pid", NoLock, {"L96", "L120"})
    [] l = "L96" -> I("local", NoLock, IF lunit[u].flag THEN {"end"} ELSE {"L97"})
    [] l = "L97" -> I("sleep", NoLock, {"L74"})
    [] l = "L120" -> I("spawn", NoLock, {"L127", "L237"})
    [] l = "L127" -> I("lock", ChildLock(u), {"L128"})
    [] l = "L128" -> I("unlock", ChildLock(u), {"L138"})
    [] l = "L138" -> I("fork_relay", NoLock, {"L170"})
    [] l = "L170" -> I("local", NoLock, IF lunit[u].flag THEN {"L231"} ELSE {"L171"})
    [] l = "L171" -> I("sleep", NoLock, {"L176"})
    [] l = "L176" -> I("lock", ChildLock(u), {"L178"})
    [] l = "L178" -> I("unlock", ChildLock(u),
                       IF lunit[u].pkg THEN {"L231", "L197"} ELSE {"L231", "L170"})
    [] l = "L197" -> I("get_pid", NoLock, {"L170", "L204"})
    [] l = "L204" -> I("lock", ChildLock(u), {"L206"})
    [] l = "L206" -> I("kill", NoLock, {"L208"})
    [] l = "L208" -> I("unlock", ChildLock(u), {"L231"})
    [] l = "L231" -> I("lock", ChildLock(u), {"L232"})
    [] l = "L232" -> I("unlock", ChildLock(u), {"L243"})
    [] l = "L237" -> I("sleep", NoLock, {"L243"})
    [] l = "L243" -> I("local", NoLock,
                       IF lunit[u].pkg THEN {"L74"}
                       ELSE IF lunit[u].flag THEN {"end"} ELSE {"L245"})
    [] l = "L245" -> I("sleep", NoLock, {"L74"})
    [] OTHER -> Halt

\* a reader thread that goes to the registry with the buffer locked
RelayLocksRegistry(l, u) ==
  CASE l = "L144" -> I("read", NoLock, {"L146", "end"})
    [] l = "L146" -> I("local", NoLock,
                       IF lunit[u].flag THEN {"end"} ELSE {"L154", "end"})
    [] l = "L154" -> I("lock", BufferLock(u), {"L155"})
    [] l = "L155" -> I("lock", LogcatStateLock, {"L156"})
    [] l = "L156" -> I("unlock", LogcatStateLock, {"L157"})
    [] l = "L157" -> I("unlock", BufferLock(u), {"L144"})
    [] OTHER -> Halt

\* the reader thread of unit u
RelayCode(l, u) ==
  CASE l = "L144" -> I("read", NoLock, {"L146", "end"})
    [] l = "L146" -> I("local", NoLock,
                       IF lunit[u].flag THEN {"end"} ELSE {"L154", "end"})
    [] l = "L154" -> I("lock", BufferLock(u), {"L155"})
    [] l = "L155" -> I("unlock", BufferLock(u), {"L144"})
    [] OTHER -> Halt

SpawnAndMonitorCode(l) ==
  CASE l = "R362" -> I("spawn", NoLock, {"R416", "idle"})
    [] l = "R416" -> I("lock", TestStateLock, {"R417"})
    [] l = "R417" -> IF lrun THEN I("local", NoLock, {"R418"})
                             ELSE I("run_insert", NoLock, {"R421"})
    [] l = "R418" -> I("unlock", TestStateLock, {"idle"})
    [] l = "R421" -> I("unlock", TestStateLock, {"R427"})
    [] l = "R427" -> I("fork_monitor", NoLock, {"idle"})
    [] OTHER -> Halt

StopTestCode(l) ==
  CASE l = "R14" -> I("lock", TestStateLock, {"R16"})
    [] l = "R16" -> I("local", NoLock, IF lrun THEN {"R30"} ELSE {"R39"})
    [] l = "R30" -> I("command", NoLock, {"R36"})
    [] l = "R36" -> I("kill", NoLock, {"R37"})
    [] l = "R37" -> I("unlock", TestStateLock, {"idle"})
    [] l = "R39" -> I("unlock", TestStateLock, {"idle"})
    [] OTHER -> Halt

ShutdownAllTestsCode(l) ==
  CASE l = "R43" -> I("lock", TestStateLock, {"R51"})
    [] l = "R51" -> I("local", NoLock, IF lrun THEN {"R66"} ELSE {"R73"})
    [] l = "R66" -> I("command", NoLock, {"R71"})
    [] l = "R71" -> I("kill", NoLock, {"R73"})
    [] l = "R73" -> I("run_remove", NoLock, {"R74"})
    [] l = "R74" -> I("unlock", TestStateLock, {"idle"})
    [] OTHER -> Halt

\* a monitoring thread that sleeps with the registry locked
MonitorSleepsLocked(l) ==
  CASE l = "R429" -> I("lock", TestStateLock, {"R432"})
    [] l = "R432" -> I("sleep", NoLock, {"R441"})
    [] l = "R441" -> I("local", NoLock, IF lrun THEN {"R460", "R472"} ELSE {"R455"})
    [] l = "R455" -> I("unlock", TestStateLock, {"end"})
    [] l = "R460" -> I("run_remove", NoLock, {"R461"})
    [] l = "R461" -> I("unlock", TestStateLock, {"R463"})
    [] l = "R463" -> I("emit", NoLock, {"end"})
    [] l = "R472" -> I("unlock", TestStateLock, {"R429"})
    [] OTHER -> Halt

\* the monitoring thread of a test run
MonitorCode(l) ==
  CASE l = "R429" -> I("sleep", NoLock, {"R432"})
    [] l = "R432" -> I("lock", TestStateLock, {"R441"})
    [] l = "R441" -> I("local", NoLock, IF lrun THEN {"R460", "R472"} ELSE {"R455"})
    [] l = "R455" -> I("unlock", TestStateLock, {"end"})
    [] l = "R460" -> I("run_remove", NoLock, {"R461"})
    [] l = "R461" -> I("unlock", TestStateLock, {"R463"})
    [] l = "R463" -> I("emit", NoLock, {"end"})
    [] l = "R472" -> I("unlock", TestStateLock, {"R429"})
    [] OTHER -> Halt

GetAppiumStatusCode(l) ==
  CASE l = "A16" -> I("lock", AppiumStateLock, {"A19"})
    [] l = "A19" -> I("local", NoLock, {"A37"})
    [] l = "A37" -> I("unlock", AppiumStateLock, {"idle"})
    [] OTHER -> Halt

StartAppiumServerCode(l) ==
  CASE l = "A47" -> I("lock", AppiumStateLock, {"A50"})
    [] l = "A50" -> I("local", NoLock, {"A52", "A87"})
    [] l = "A52" -> I("unlock", AppiumStateLock, {"idle"})
    [] l = "A87" -> I("spawn", NoLock, {"A93", "A123"})
    [] l = "A93" -> I("local", NoLock, {"A121"})
    [] l = "A121" -> I("unlock", AppiumStateLock, {"idle"})
    [] l = "A123" -> I("unlock", AppiumStateLock, {"idle"})
    [] OTHER -> Halt

StopAppiumServerCode(l) ==
  CASE l = "A129" -> I("lock", AppiumStateLock, {"A130"})
    [] l = "A130" -> I("local", NoLock, {"A136", "A147", "A154"})
    [] l = "A136" -> I("command", NoLock, {"A147"})
    [] l = "A147" -> I("kill", NoLock, {"A150"})
    [] l = "A150" -> I("wait", NoLock, {"A152"})
    [] l = "A152" -> I("unlock", AppiumStateLock, {"idle"})
    [] l = "A154" -> I("unlock", AppiumStateLock, {"idle"})
    [] OTHER -> Halt

StartNgrokCode(l) ==
  CASE l = "N21" -> I("local", NoLock, {"N27", "N33"})
    [] l = "N27" -> I("command", NoLock, {"N33", "idle"})
    [] l = "N33" -> I("lock", NgrokStateLock, {"N34"})
    [] l = "N34" -> I("local", NoLock, {"N44", "N50"})
    [] l = "N44" -> I("command", NoLock, {"N48"})
    [] l = "N48" -> I("local", NoLock, {"N50"})
    [] l = "N50" -> I("unlock", NgrokStateLock, {"N61"})
    [] l = "N61" -> I("spawn", NoLock, {"N66", "idle"})
    [] l = "N66" -> I("lock", NgrokStateLock, {"N67"})
    [] l = "N67" -> I("unlock", NgrokStateLock, {"N78"})
    [] l = "N78" -> I("read", NoLock, {"N80", "idle"})
    [] l = "N80" -> I("kill", NoLock, {"idle"})
    [] OTHER -> Halt

StopNgrokCode(l) ==
  CASE l = "N107" -> I("lock", NgrokStateLock, {"N109"})
    [] l = "N109" -> I("local", NoLock, {"N119", "N136"})
    [] l = "N119" -> I("command", NoLock, {"N123"})
    [] l = "N123" -> I("local", NoLock, {"N136"})
    [] l = "N136" -> I("command", NoLock, {"N141"})
    [] l = "N141" -> I("unlock", NgrokStateLock, {"idle"})
    [] OTHER -> Halt

CommandCode(c, l, u) ==
  CASE c = "start_logcat" -> StartLogcatCode(l, u)
    [] c = "stop_logcat" -> StopLogcatCode(l, u)
    [] c = "is_logcat_active" -> IsLogcatActiveCode(l)
    [] c = "get_logcat_details" -> GetLogcatDetailsCode(l)
    [] c = "fetch_logcat_buffer" -> FetchLogcatBufferCode(l, u)
    [] c = "spawn_and_monitor" -> SpawnAndMonitorCode(l)
    [] c = "stop_test" -> StopTestCode(l)
    [] c = "shutdown_all_tests" -> ShutdownAllTestsCode(l)
    [] c = "get_appium_status" -> GetAppiumStatusCode(l)
    [] c = "start_appium_server" -> StartAppiumServerCode(l)
    [] c = "stop_appium_server" -> StopAppiumServerCode(l)
    [] c = "start_ngrok" -> StartNgrokCode(l)
    [] c = "stop_ngrok" -> StopNgrokCode(l)
    [] OTHER -> Halt

\* the instruction thread t stands at
Instr(t) ==
  IF at[t] \in {"off", "idle", "end"} THEN Halt
  ELSE CASE t[1] = "call" -> CommandCode(running[t].cmd, at[t], running[t].unit)
         [] t[1] = "sup" -> SupervisorCode(at[t], t[2])
         [] t[1] = "relay" -> RelayCode(at[t], t[2])
         [] t[1] = "monitor" -> MonitorCode(at[t])

\* the locks thread t holds
Held(t) == {m \in Locks : mutex[m] = t}

Goto(t) == \E l \in Instr(t).next : at' = [at EXCEPT ![t] = l]

\* the callers that are running command c
InFlight(c) == {s \in CallerThreads : running[s].cmd = c}

\* a caller begins a command.  The units of a behaviour are bounded by the
\* calls that are begun: a start_logcat begins while it can
\* still be accepted within the bound or is sure to be refused, and a
\* stop_logcat does not begin beside a start_logcat once the bound is reached.
Call(t, c) ==
  /\ t \in CallerThreads
  /\ at[t] = "idle"
  /\ c = "start_logcat" =>
       \/ Len(lunit) + Cardinality(InFlight(c)) < MaxLockUnits
       \/ lkey # 0 /\ InFlight("stop_logcat") = {}
  /\ c = "stop_logcat" /\ Len(lunit) = MaxLockUnits =>
       InFlight("start_logcat") = {}
  /\ at' = [at EXCEPT ![t] = Entry(c)]
  /\ running' = [running EXCEPT ![t] = [cmd |-> c, unit |-> 0]]
  /\ UNCHANGED <<mutex, lkey, lunit, lrun>>
  /\ UNCHANGED <<logcatVars, fileVars, lookupVars, pollVars, testVars, serviceVars>>

\* a command has returned once its caller is idle again
Returned(t) ==
  IF t \in CallerThreads /\ at'[t] = "idle"
  THEN running' = [running EXCEPT ![t] = [cmd |-> "none", unit |-> 0]]
  ELSE UNCHANGED running

\* mutex.lock(): the thread waits until the mutex is free and takes it
Acquire(t) ==
  /\ Instr(t).op = "lock"
  /\ mutex[Instr(t).lock] = NoThread
  /\ mutex' = [mutex EXCEPT ![Instr(t).lock] = t]
  /\ Goto(t)
  /\ UNCHANGED <<running, lkey, lunit, lrun>>
  /\ UNCHANGED <<logcatVars, fileVars, lookupVars, pollVars, testVars, serviceVars>>

\* the guard goes out of scope
Release(t) ==
  /\ Instr(t).op = "unlock"
  /\ mutex' = [mutex EXCEPT ![Instr(t).lock] = NoThread]
  /\ Goto(t)
  /\ Returned(t)
  /\ UNCHANGED <<lkey, lunit, lrun>>
  /\ UNCHANGED <<logcatVars, fileVars, lookupVars, pollVars, testVars, serviceVars>>

\* what the thread cannot go on from until something outside it happens
BlockingOps == {"sleep", "get_pid", "spawn", "command", "read", "wait"}

\* a sleep ends, an external command or a spawn returns, a read returns
Block(t) ==
  /\ Instr(t).op \in BlockingOps
  /\ Goto(t)
  /\ Returned(t)
  /\ UNCHANGED <<mutex, lkey, lunit, lrun>>
  /\ UNCHANGED <<logcatVars, fileVars, lookupVars, pollVars, testVars, serviceVars>>

\* a step inside the thread: a branch, a kill, an event
Local(t) ==
  /\ Instr(t).op \in {"local", "kill", "emit"}
  /\ Goto(t)
  /\ Returned(t)
  /\ UNCHANGED <<mutex, lkey, lunit, lrun>>
  /\ UNCHANGED <<logcatVars, fileVars, lookupVars, pollVars, testVars, serviceVars>>

\* a step on the registries, the stop flag or the threads.  One reader
\* thread per unit and one monitoring thread are followed: a thread started
\* while the earlier one is still running is not.
Registry(t) ==
  /\ Instr(t).op \in {"admit", "insert", "remove", "get", "store_flag",
                      "fork_supervisor", "fork_relay",
                      "run_insert", "run_remove", "fork_monitor"}
  /\ \E pkg \in IF Instr(t).op = "admit" THEN BOOLEAN ELSE {FALSE} :
     LET op == Instr(t).op
         l == CHOOSE n \in Instr(t).next : TRUE
         u == IF t \in CallerThreads THEN running[t].unit ELSE t[2]
     IN  /\ lunit' = IF op = "admit"
                       THEN Append(lunit, [flag |-> FALSE, pkg |-> pkg])
                     ELSE IF op = "store_flag"
                       THEN [lunit EXCEPT ![u].flag = TRUE]
                     ELSE lunit
         /\ running' = IF op = "admit" THEN [running EXCEPT ![t].unit = Len(lunit) + 1]
                       ELSE IF op \in {"remove", "get"} THEN [running EXCEPT ![t].unit = lkey]
                       ELSE IF t \in CallerThreads /\ l = "idle"
                         THEN [running EXCEPT ![t] = [cmd |-> "none", unit |-> 0]]
                       ELSE running
         /\ lkey' = IF op = "insert" THEN u
                    ELSE IF op = "remove" THEN 0
                    ELSE lkey
         /\ lrun' = IF op = "run_insert" THEN TRUE
                    ELSE IF op = "run_remove" THEN FALSE
                    ELSE lrun
         /\ at' = IF op = "fork_supervisor"
                    THEN [at EXCEPT ![t] = l, ![<<"sup", u>>] = "L74"]
                  ELSE IF op = "fork_relay" /\ at[<<"relay", u>>] \in {"off", "end"}
                    THEN [at EXCEPT ![t] = l, ![<<"relay", u>>] = "L144"]
                  ELSE IF op = "fork_monitor" /\ at[<<"monitor", 1>>] \in {"off", "end"}
                    THEN [at EXCEPT ![t] = l, ![<<"monitor", 1>>] = "R429"]
                  ELSE [at EXCEPT ![t] = l]
  /\ UNCHANGED mutex
  /\ UNCHANGED <<logcatVars, fileVars, lookupVars, pollVars, testVars, serviceVars>>

(***************************************************************************)
(* The state after construction: empty registries, no thread, no process.  *)
(***************************************************************************)
InitLogcat ==
  /\ procs = [d \in Devices |-> 0]
  /\ cfg = <<>>
  /\ should_stop = <<>>
  /\ child = <<>>
  /\ buffer = <<>>
  /\ sup = <<>>
  /\ os = <<>>
  /\ relay = <<>>

InitFile == mirror = <<>>

InitLookups == lookups = <<>>

InitPoll ==
  /\ client = [d \in Devices |-> [off |-> 0, got |-> <<>>]]
  /\ query = NoQuery

InitNgrok ==
  /\ ngrokState = 0
  /\ nos = <<>>
  /\ ncall = <<>>
  /\ nret = <<>>

InitAppium ==
  /\ appiumState = 0
  /\ aos = <<>>
  /\ aret = [op |-> "none", res |-> "none", pid |-> 0]
  /\ aout = <<>>

InitTest ==
  /\ testProcs = [r \in RunIds |-> 0]
  /\ tos = <<>>
  /\ tcall = {}
  /\ tmon = <<>>
  /\ finished = [r \in RunIds |-> 0]
  /\ tret = TOk("none", 0, "none")
  /\ tout = <<>>

InitLocks ==
  /\ mutex = [m \in Locks |-> NoThread]
  /\ at = [t \in Threads |-> IF t \in CallerThreads THEN "idle" ELSE "off"]
  /\ running = [t \in CallerThreads |-> [cmd |-> "none", unit |-> 0]]
  /\ lkey = 0
  /\ lunit = <<>>
  /\ lrun = FALSE

Init ==
  /\ InitLogcat /\ InitFile /\ InitLookups /\ InitPoll /\ InitTest /\ InitNgrok /\ InitAppium
  /\ InitLocks

(***************************************************************************)
(* The lifecycle of logcat units: the commands, the supervisor threads and *)
(* the processes' own exits.  The reader threads and the processes' output *)
(* are left out: they change only relay, buffer and os[p].written, which   *)
(* no lifecycle action reads.                                              *)
(***************************************************************************)
NextLogcat ==
  \/ StartLogcat
  \/ StopLogcat
  \/ Supervisor
  \/ \E p \in OsProcs : ProcExit(p)

SpecLogcat == Init /\ [][NextLogcat]_vars

(***************************************************************************)
(* The output buffer near its high-water mark.  The initial states are the *)
(* states SpecLogcat's unit 1 is in after start_logcat(1, None, None), one *)
(* spawn and n lines relayed with no poll yet, for the n that leave the    *)
(* buffer 0..InitSlack lines under the mark; from there the process        *)
(* writes, the reader thread relays and the client polls.                  *)
(***************************************************************************)
FilledBuffer(n) == <<HeaderLine(1, 0)>> \o [i \in 1..n |-> OutLine(1, i)]

InitBuf ==
  /\ \E n \in {HighWater - 1 - k : k \in 0..InitSlack} :
       /\ buffer = <<FilledBuffer(n)>>
       /\ os = <<[unit |-> 1, pidarg |-> 0, st |-> "running", written |-> n, kills |-> 0]>>
       /\ relay = <<[pc |-> "read", readn |-> n, fw |-> FALSE]>>
  /\ procs = [d \in Devices |-> IF d = 1 THEN 1 ELSE 0]
  /\ cfg = <<[device |-> 1, pkg |-> FALSE, output_file |-> 0]>>
  /\ should_stop = <<FALSE>>
  /\ child = <<1>>
  /\ sup = <<[pc |-> "mon", current_pid |-> 0, child_proc |-> 0]>>
  /\ InitFile
  /\ InitLookups
  /\ InitPoll
  /\ InitTest
  /\ InitNgrok
  /\ InitAppium
  /\ InitLocks

NextBuf ==
  \/ \E p \in OsProcs : os[p].written < HighWater - 1 + MaxAppends /\ ProcWrite(p)
  \/ \E p \in OsProcs : RelayRead(p)
  \/ \E p \in OsProcs : RelayPush(p)
  \/ \E d \in Devices : ClientPoll(d)

SpecBuf == InitBuf /\ [][NextBuf]_vars

(***************************************************************************)
(* Streaming: one device key is started without a filter, its supervisor   *)
(* and reader thread run (neither the pid check nor, with the child alive  *)
(* and no stop, the cleanup is ever enabled), the process writes up to     *)
(* MaxStream lines, and clients poll and query both keys.  The buffer      *)
(* stays far under its high-water mark, so nothing is evicted.             *)
(***************************************************************************)
NextStream ==
  \/ \E output_file \in {0, 1} :
       /\ start_logcat(1, FALSE, output_file)
       /\ UNCHANGED <<fileVars, lookupVars, pollVars, testVars, serviceVars, lockVars>>
  \/ \E u \in Units :
       /\ \/ SupLoop(u) \/ SupSpawn(u) \/ SupStore(u) \/ SupMon(u)
          \/ SupWait(u) \/ SupTail(u)
       /\ UNCHANGED <<fileVars, lookupVars, pollVars, testVars, serviceVars, lockVars>>
  \/ \E p \in OsProcs : os[p].written < MaxStream /\ ProcWrite(p)
  \/ \E p \in OsProcs : RelayOpen(p)
  \/ \E p \in OsProcs : RelayRead(p)
  \/ \E p \in OsProcs : RelayFile(p)
  \/ \E p \in OsProcs : RelayPush(p)
  \/ \E d \in Devices : ClientPoll(d)
  \/ Query

SpecStream == Init /\ [][NextStream]_vars

(***************************************************************************)
(* Relaying under restarts: one device key is started, with or without a   *)
(* filter; its supervisor spawns, monitors and restarts; the processes     *)
(* write up to MaxLines lines each and may exit; each process's reader     *)
(* thread relays to the output file and the buffer.                        *)
(***************************************************************************)
NextRelay ==
  \/ \E a \in StartArgs :
       /\ start_logcat(1, a[1], a[2])
       /\ UNCHANGED <<fileVars, lookupVars, pollVars, testVars, serviceVars, lockVars>>
  \/ Supervisor
  \/ \E p \in OsProcs : os[p].written < MaxLines /\ ProcWrite(p)
  \/ \E p \in OsProcs : ProcExit(p)
  \/ \E p \in OsProcs : RelayOpen(p)
  \/ \E p \in OsProcs : RelayRead(p)
  \/ \E p \in OsProcs : RelayFile(p)
  \/ \E p \in OsProcs : RelayPush(p)

SpecRelay == Init /\ [][NextRelay]_vars

(***************************************************************************)
(* Generations of one key: device 1 is started without a filter, stopped   *)
(* and started again; the supervisors spawn and monitor, the processes     *)
(* write, the reader threads relay to the buffers.                         *)
(***************************************************************************)
NextGen ==
  \/ /\ start_logcat(1, FALSE, 0)
     /\ UNCHANGED <<fileVars, lookupVars, pollVars, testVars, serviceVars, lockVars>>
  \/ /\ stop_logcat(1)
     /\ UNCHANGED <<fileVars, lookupVars, pollVars, testVars, serviceVars, lockVars>>
  \/ \E u \in Units :
       /\ \/ SupLoop(u) \/ SupSpawn(u) \/ SupStore(u) \/ SupMon(u)
          \/ SupWait(u) \/ SupCleanup(u) \/ SupTail(u)
       /\ UNCHANGED <<fileVars, lookupVars, pollVars, testVars, serviceVars, lockVars>>
  \/ \E p \in OsProcs : os[p].written < MaxLines /\ ProcWrite(p)
  \/ \E p \in OsProcs : RelayOpen(p)
  \/ \E p \in OsProcs : RelayRead(p)
  \/ \E p \in OsProcs : RelayPush(p)

SpecGen == Init /\ [][NextGen]_vars

(***************************************************************************)
(* Restarts: one unit is started with a package filter and may be          *)
(* stopped; its supervisor resolves, spawns, monitors and restarts, with   *)
(* up to MaxLookups calls of get_pid, each answered in any way and         *)
(* recorded; the processes may exit by themselves.                         *)
(***************************************************************************)
NextRestart ==
  \/ /\ cfg = <<>>
     /\ start_logcat(1, TRUE, 1)
     /\ UNCHANGED <<fileVars, lookupVars, pollVars, testVars, serviceVars, lockVars>>
  \/ /\ stop_logcat(1)
     /\ UNCHANGED <<fileVars, lookupVars, pollVars, testVars, serviceVars, lockVars>>
  \/ SupervisorLooks
  \/ SupervisorSteps
  \/ \E p \in OsProcs : ProcExit(p)

SpecRestart == Init /\ [][NextRestart]_vars

(***************************************************************************)
(* One unit from start to end: it is started, with or without a filter,    *)
(* and may be stopped; its supervisor runs; its processes may exit.        *)
(***************************************************************************)
NextUnit ==
  \/ \E a \in StartArgs :
       /\ cfg = <<>>
       /\ start_logcat(1, a[1], a[2])
       /\ UNCHANGED <<fileVars, lookupVars, pollVars, testVars, serviceVars, lockVars>>
  \/ /\ stop_logcat(1)
     /\ UNCHANGED <<fileVars, lookupVars, pollVars, testVars, serviceVars, lockVars>>
  \/ Supervisor
  \/ \E p \in OsProcs : ProcExit(p)

SpecUnit == Init /\ [][NextUnit]_vars

\* the supervisor thread is scheduled, its sleeps end, its adb commands
\* return and the child mutex is released by every holder
SupThread(u) ==
  /\ \/ SupLoop(u)
     \/ SupNoPid(u)
     \/ SupSpawn(u)
     \/ SupStore(u)
     \/ SupMon(u)
     \/ SupWait(u)
     \/ SupPidChk(u)
     \/ SupCleanup(u)
     \/ SupTail(u)
  /\ UNCHANGED <<fileVars, lookupVars, pollVars, testVars, serviceVars, lockVars>>

FairSupervisor == \A u \in 1..MaxUnits : WF_vars(u \in Units /\ SupThread(u))

SpecUnitFair == SpecUnit /\ FairSupervisor

(***************************************************************************)
(* The pid lookup: one unit is started with a package filter and may be    *)
(* stopped; its supervisor makes up to MaxSamples calls of get_pid, whose   *)
(* two adb commands answer in any way.                                     *)
(***************************************************************************)
NextPid ==
  \/ /\ cfg = <<>>
     /\ start_logcat(1, TRUE, 1)
     /\ UNCHANGED <<fileVars, lookupVars, pollVars, testVars, serviceVars, lockVars>>
  \/ /\ stop_logcat(1)
     /\ UNCHANGED <<fileVars, lookupVars, pollVars, testVars, serviceVars, lockVars>>
  \/ SupervisorSamples
  \/ SupervisorSteps
  \/ \E p \in OsProcs : ProcExit(p)

SpecPid == Init /\ [][NextPid]_vars

NextNgrok ==
  \/ NgrokBegin
  \/ \E c \in NgrokCalls : NgrokStopExisting(c)
  \/ \E c \in NgrokCalls : NgrokSpawn(c)
  \/ \E c \in NgrokCalls : NgrokStore(c)
  \/ \E c \in NgrokCalls : NgrokClock(c)
  \/ \E c \in NgrokCalls : NgrokRead(c)
  \/ stop_ngrok
  \/ \E p \in NgrokProcs : NgrokWrite(p)
  \/ \E p \in NgrokProcs : NgrokExit(p)

SpecNgrok == Init /\ [][NextNgrok]_vars

\* every start_ngrok call runs on: its thread is scheduled, the lock is
\* released by every holder, and the clock advances.  Nothing obliges the
\* ngrok process to write or to exit.
FairNgrok ==
  \A c \in 1..MaxNgrokCalls :
    /\ WF_vars(c \in NgrokCalls /\ NgrokStopExisting(c))
    /\ WF_vars(c \in NgrokCalls /\ NgrokSpawn(c))
    /\ WF_vars(c \in NgrokCalls /\ NgrokStore(c))
    /\ WF_vars(c \in NgrokCalls /\ NgrokClock(c))
    /\ WF_vars(c \in NgrokCalls /\ NgrokRead(c))

SpecNgrokFair == SpecNgrok /\ FairNgrok

NextAppium ==
  \/ start_appium_server
  \/ stop_appium_server
  \/ get_appium_status
  \/ \E p \in AppiumProcs : AppiumExit(p)

SpecAppium == Init /\ [][NextAppium]_vars

(***************************************************************************)
(* The output of one Appium server: it is started, and may be stopped or   *)
(* asked for its status; the process writes to stdout and stderr and may   *)
(* exit; its two output threads read the pipes.                            *)
(***************************************************************************)
NextAppiumOutput ==
  \/ aos = <<>> /\ start_appium_server
  \/ stop_appium_server
  \/ get_appium_status
  \/ \E p \in AppiumProcs : AppiumExit(p)
  \/ \E p \in AppiumProcs, s \in Streams : AppiumWrite(p, s)
  \/ \E p \in AppiumProcs, s \in Streams : AppiumRead(p, s)

SpecAppiumOutput == Init /\ [][NextAppiumOutput]_vars

NextTest ==
  \/ \E r \in RunIds : RunSpawn(r)
  \/ \E p \in TestProcs : RunAdmit(p)
  \/ StopTest
  \/ shutdown_all_tests
  \/ \E p \in TestProcs : MonitorTick(p)
  \/ \E p \in TestProcs : MonitorEmit(p)
  \/ \E p \in TestProcs : TestExit(p)

SpecTest == Init /\ [][NextTest]_vars

\* the monitoring threads are scheduled: each wakes from its 500 ms sleep
\* and gets the registry lock, which every holder releases
FairMonitors ==
  \A p \in 1..MaxTestProcs :
    /\ WF_vars(p \in TestProcs /\ MonitorTick(p))
    /\ WF_vars(p \in TestProcs /\ MonitorEmit(p))

SpecTestFair == SpecTest /\ FairMonitors

(***************************************************************************)
(* The output of one test run: the run is started, and may be stopped; its *)
(* process writes to stdout and stderr and exits; its streaming threads    *)
(* emit the lines; its monitoring thread polls.                            *)
(***************************************************************************)
NextOutput ==
  \/ \E r \in RunIds : tos = <<>> /\ RunSpawn(r)
  \/ \E p \in TestProcs : RunAdmit(p)
  \/ StopTest
  \/ \E p \in TestProcs : MonitorTick(p)
  \/ \E p \in TestProcs : MonitorEmit(p)
  \/ \E p \in TestProcs : TestExit(p)
  \/ \E p \in TestProcs, s \in Streams : TestWrite(p, s)
  \/ \E p \in TestProcs, s \in Streams : StreamRead(p, s)

SpecOutput == Init /\ [][NextOutput]_vars

(***************************************************************************)
(* The locks of the logcat subsystem: callers run the logcat commands at   *)
(* the same time, the supervisor and reader threads of the units run.      *)
(***************************************************************************)
NextLogcatLocks ==
  \/ \E t \in CallerThreads, c \in LogcatCommands : Call(t, c)
  \/ \E t \in Threads : Acquire(t)
  \/ \E t \in Threads : Release(t)
  \/ \E t \in Threads : Block(t)
  \/ \E t \in Threads : Local(t)
  \/ \E t \in Threads : Registry(t)

SpecLogcatLocks == Init /\ [][NextLogcatLocks]_vars

\* every thread is scheduled: it goes on from a step inside it, from a
\* registry operation and from the end of a guard's scope, and a command
\* waiting for a mutex that is released again and again gets it.  Nothing
\* obliges a sleep, an external command, a spawn or a read to return, nor
\* a background thread to win a mutex.
FairLocks ==
  /\ \A t \in Threads :
       /\ WF_vars(Release(t))
       /\ WF_vars(Local(t))
       /\ WF_vars(Registry(t))
  /\ \A t \in CallerThreads : SF_vars(Acquire(t))

SpecLogcatLocksFair == SpecLogcatLocks /\ FairLocks

(***************************************************************************)
(* The threads that wait: one caller starts and stops a logcat and one     *)
(* starts test runs and shuts them down, beside the supervisor, reader and *)
(* monitoring threads.                                                     *)
(***************************************************************************)
NextSuspend ==
  \/ \E c \in {"start_logcat", "stop_logcat"} : Call(<<"call", 1>>, c)
  \/ \E c \in {"spawn_and_monitor", "shutdown_all_tests"} : Call(<<"call", 2>>, c)
  \/ \E t \in Threads : Acquire(t)
  \/ \E t \in Threads : Release(t)
  \/ \E t \in Threads : Block(t)
  \/ \E t \in Threads : Local(t)
  \/ \E t \in Threads : Registry(t)

SpecSuspend == Init /\ [][NextSuspend]_vars

(***************************************************************************)
(* The commands of the four registries, run by callers at the same time;   *)
(* the threads the commands start are left where they start.               *)
(***************************************************************************)
NextCommands ==
  \/ \E t \in CallerThreads :
       \E c \in LogcatCommands \cup TestCommands \cup ServiceCommands : Call(t, c)
  \/ \E t \in CallerThreads : Acquire(t)
  \/ \E t \in CallerThreads : Release(t)
  \/ \E t \in CallerThreads : Block(t)
  \/ \E t \in CallerThreads : Local(t)
  \/ \E t \in CallerThreads : Registry(t)

SpecCommands == Init /\ [][NextCommands]_vars

(***************************************************************************)
(* The whole program: every action of every subsystem.                     *)
(***************************************************************************)
Next ==
  \/ NextLogcat
  \/ \E p \in OsProcs : os[p].written < MaxLines /\ ProcWrite(p)
  \/ \E p \in OsProcs : RelayOpen(p)
  \/ \E p \in OsProcs : RelayRead(p)
  \/ \E p \in OsProcs : RelayFile(p)
  \/ \E p \in OsProcs : RelayPush(p)
  \/ \E d \in Devices : ClientPoll(d)
  \/ Query
  \/ NextTest
  \/ \E p \in TestProcs, s \in Streams : TestWrite(p, s)
  \/ \E p \in TestProcs, s \in Streams : StreamRead(p, s)
  \/ NextNgrok
  \/ NextAppium
  \/ \E p \in AppiumProcs, s \in Streams : AppiumWrite(p, s)
  \/ \E p \in AppiumProcs, s \in Streams : AppiumRead(p, s)
  \/ NextLogcatLocks
  \/ NextCommands

Spec == Init /\ [][Next]_vars

(***************************************************************************)
(* Claims about the logcat registry and lifecycle.                         *)
(***************************************************************************)
LogcatUnitState == <<procs, cfg, should_stop, child, buffer, sup, os, relay>>

\* the live adb logcat processes spawned for device d, by any of its units
LiveProcs(d) == {p \in OsProcs : cfg[os[p].unit].device = d /\ os[p].st = "running"}

\* what one start_logcat call does to the units, by the registry it finds
C2_StartStep(d, a) ==
  start_logcat(d, a[1], a[2]) =>
    IF contains_key(d)
    THEN UNCHANGED LogcatUnitState
    ELSE /\ Len(cfg') = Len(cfg) + 1
         /\ Len(sup') = Len(sup) + 1
         /\ Len(buffer') = Len(buffer) + 1
         /\ procs'[d] = Len(cfg')
         /\ cfg'[Len(cfg')].device = d
         /\ os' = os

\* the units whose stop flag is clear are exactly the registered ones
C2_OneLiveUnit ==
  \A u \in Units : ~should_stop[u] <=> procs[cfg[u].device] = u

\* the answer of start_logcat in the current state
C2_Answer ==
  \A d \in Devices :
    start_logcat_ret(d) =
      IF contains_key(d) THEN "Logcat already running" ELSE "Logcat started"

\* C2: a start_logcat call for a key in the registry answers "Logcat already
\* running" and creates no unit, thread or process; a call for a key not in
\* the registry answers "Logcat started" and creates exactly one unit with
\* its buffer, child slot, stop flag and supervisor thread, registered under
\* the key; so between two stops of a key at most one unit of the key is not
\* stopped, and it is the registered one.
C2_AdmissionAtomic ==
  [][/\ \A d \in Devices, a \in StartArgs : C2_StartStep(d, a)
     /\ C2_OneLiveUnit'
     /\ C2_Answer']_vars

\* a key is registered with its supervisor at work, a second key has been
\* stopped: start_logcat for the first is refused, for the second admitted
C2_Witness ==
  \E d, e \in Devices :
    /\ contains_key(d)
    /\ child[procs[d]] # 0
    /\ start_logcat_ret(d) = "Logcat already running"
    /\ ~contains_key(e)
    /\ \E u \in Units : cfg[u].device = e
    /\ start_logcat_ret(e) = "Logcat started"

\* C3: once stop_logcat has been called on a unit and its supervisor thread
\* has ended, no adb logcat process the unit spawned is still running.
C3_StoppedUnitLeavesNoProcess ==
  \A u \in Units :
    should_stop[u] /\ sup[u].pc = "done" =>
      \A p \in OsProcs : os[p].unit = u => os[p].st # "running"

\* C4: at most one live adb logcat process per device key.
C4_OneLiveProcessPerKey ==
  \A d \in Devices : Cardinality(LiveProcs(d)) <= 1

\* what one stop_logcat call does to a registered key and its unit
C5_StopStep(d) ==
  stop_logcat(d) /\ contains_key(d) =>
    LET u == procs[d]
    IN  /\ stop_logcat_ret(d) = "Logcat stopped"
        /\ ~contains_key(d)'
        /\ is_logcat_active(d)' = FALSE
        /\ get_logcat_details(d)' = [is_active |-> FALSE, output_file |-> 0]
        /\ should_stop'[u]
        /\ child'[u] = 0
        /\ child[u] # 0 =>
             /\ os'[child[u]].kills = os[child[u]].kills + 1
             /\ os'[child[u]].st # "running"

\* a key enters the registry only by start_logcat
C5_OnlyStartRegisters(d) ==
  ~contains_key(d) /\ contains_key(d)' =>
    \E a \in StartArgs : start_logcat(d, a[1], a[2])

\* C5: a stop_logcat call for a registered key removes the key (the status
\* queries then report inactive and no output file), sets the unit's stop
\* flag, leaves the slot empty and issues kill on the child that was in it;
\* a key enters the registry again only by start_logcat.
C5_StopRemovesAndKills ==
  [][\A d \in Devices : C5_StopStep(d) /\ C5_OnlyStartRegisters(d)]_vars

\* stop_logcat has taken and killed the child of a unit without a filter
\* (whose supervisor never kills)
C5_Witness ==
  \E p \in OsProcs :
    /\ ~is_logcat_active(cfg[os[p].unit].device)
    /\ ~cfg[os[p].unit].pkg
    /\ should_stop[os[p].unit]
    /\ os[p].st = "killed"

\* what one stop_logcat call leaves alone
C7_StopStep(d) ==
  stop_logcat(d) =>
    IF ~contains_key(d)
    THEN UNCHANGED LogcatUnitState
    ELSE /\ \A e \in Devices \ {d} : procs'[e] = procs[e]
         /\ \A v \in Units \ {procs[d]} :
              /\ should_stop'[v] = should_stop[v]
              /\ child'[v] = child[v]
              /\ buffer'[v] = buffer[v]
              /\ sup'[v] = sup[v]
         /\ \A p \in OsProcs : os[p].unit # procs[d] => os'[p] = os[p]

\* the answer of stop_logcat for the keys not in the registry
C7_Answer ==
  \A d \in Devices : ~contains_key(d) => stop_logcat_ret(d) = "Logcat not running"

\* C7: stop_logcat for a key not in the registry answers "Logcat not
\* running" and changes nothing; stop_logcat for a registered key changes no
\* other key's entry and no other unit's stop flag, child slot, buffer,
\* supervisor or processes.
C7_StopIdempotent ==
  [][/\ \A d \in Devices : C7_StopStep(d)
     /\ C7_Answer']_vars

\* one key has been stopped and is not registered, another key is
\* registered and has a running child
C7_Witness ==
  \E d, e \in Devices :
    /\ ~contains_key(d)
    /\ stop_logcat_ret(d) = "Logcat not running"
    /\ \E u \in Units : cfg[u].device = d /\ should_stop[u]
    /\ contains_key(e)
    /\ child[procs[e]] # 0
    /\ os[child[procs[e]]].st = "running"

(***************************************************************************)
(* Claims about the test registry.                                         *)
(***************************************************************************)
\* C1: while a run id is in the test registry, no step creates another OS
\* process for that run id.
C1_NoSecondProcess ==
  [][\A r \in RunIds :
       testProcs[r] # 0 =>
         \/ Len(tos') = Len(tos)
         \/ tos'[Len(tos')].run # r]_vars

C6_StopTestStep(r) ==
  stop_test(r) /\ testProcs[r] # 0 =>
    /\ testProcs' = testProcs
    /\ tos'[testProcs[r]].st # "running"
    /\ tos'[testProcs[r]].kills = tos[testProcs[r]].kills + 1
    /\ tret' = TOk("stop_test", r, "Test stopped")

\* the steps that take an entry out of the test registry
C6_RemovedOnlyByMonitor(r) ==
  testProcs[r] # 0 /\ testProcs'[r] = 0 =>
    \/ shutdown_all_tests
    \/ /\ tos[testProcs[r]].st # "running"
       /\ \E p \in TestProcs : MonitorTick(p)

C8_StopTestNeverErrs ==
  /\ tret.op = "stop_test"
  /\ testProcs[tret.run_id] = 0
  /\ \E p \in TestProcs : tos[p].run = tret.run_id /\ tos[p].reaped
  => tret.ok

\* C8 amended: stop_test for a run id that is not in the registry changes
\* neither the registry nor any process, monitoring thread or event count,
\* and returns the error "Test <run_id> not running".
C8_StopMissingIsNoOpWithError ==
  [][\A r \in RunIds :
       stop_test(r) /\ testProcs[r] = 0 =>
         /\ UNCHANGED <<testProcs, tos, tcall, tmon, finished>>
         /\ tret' = TErr("stop_test", r, "Test not running")]_vars

\* stop_test has returned its error for a run that had been started and has
\* left the registry, while another run is registered and running
C8_Witness ==
  /\ tret = TErr("stop_test", tret.run_id, "Test not running")
  /\ testProcs[tret.run_id] = 0
  /\ \E p \in TestProcs : tos[p].run = tret.run_id /\ tos[p].reaped
  /\ \E r \in RunIds : testProcs[r] # 0 /\ tos[testProcs[r]].st = "running"

(***************************************************************************)
(* Claims about the output buffer and incremental polling.                 *)
(***************************************************************************)
Range(q) == {q[i] : i \in 1..Len(q)}

\* what one push of the reader thread does to the buffer
C9_PushStep(p) ==
  RelayPush(p) =>
    LET u == os[p].unit
        old == buffer[u]
        new == buffer'[u]
    IN  IF Len(old) + 1 > HighWater
        THEN /\ Len(new) = Len(old) + 1 - EvictBlock
             /\ \A i \in 1..(Len(new) - 1) : new[i] = old[i + EvictBlock]
             /\ new[Len(new)] = OutLine(p, relay[p].readn)
        ELSE new = Append(old, OutLine(p, relay[p].readn))

\* no buffer is longer than the high-water mark
C9_Bounded == \A u \in Units : Len(buffer[u]) <= HighWater

\* C9: every buffer holds at most HighWater lines in every state; a push by
\* the reader thread that would make the length exceed HighWater removes
\* exactly the EvictBlock oldest lines in the same step, and the lines that
\* stay keep their order, followed by the new line; any other push only
\* appends the line.
C9_BufferBounded ==
  [][/\ \A p \in OsProcs : C9_PushStep(p)
     /\ C9_Bounded']_vars

\* the buffer right after an eviction: the header and the oldest lines are
\* gone, the newest line is the last
C9_Witness ==
  /\ Len(buffer[1]) = HighWater + 1 - EvictBlock
  /\ buffer[1][1] = OutLine(1, EvictBlock)
  /\ buffer[1][Len(buffer[1])] = OutLine(1, HighWater)

\* what one poll delivers, against what the buffer holds
C10_PollStep(d) ==
  ClientPoll(d) /\ contains_key(d) =>
    /\ Range(buffer[procs[d]]) \subseteq Range(client'[d].got)
    /\ Range(fetch_logcat_buffer(d, client[d].off).lines) \cap Range(client[d].got) = {}

\* C10: a poll that passes the offset returned by the previous poll leaves
\* no line of the buffer undelivered, and delivers no line a second time.
C10_PollMissesNothing ==
  [][\A d \in Devices : C10_PollStep(d)]_vars

(***************************************************************************)
(* Claims about polling and the query commands, with no eviction.          *)
(***************************************************************************)
\* what a chained poll of a registered key returns and leaves with the client
C11_PollStep(d) ==
  ClientPoll(d) /\ contains_key(d) =>
    LET buf == buffer[procs[d]]
    IN  /\ client'[d].off = Len(buf)
        /\ client'[d].got = client[d].got \o SubSeq(buf, client[d].off + 1, Len(buf))

\* what a fetch at or past the end of the buffer returns
C11_FetchPastEnd(d, offset) ==
  FetchLogcatBuffer(d, offset) /\ contains_key(d) /\ offset >= Len(buffer[procs[d]]) =>
    /\ query'.lines = <<>>
    /\ query'.new_offset = Len(buffer[procs[d]])

\* the lines delivered so far are the first client[d].off lines of the buffer
C11_Delivered ==
  \A d \in Devices :
    IF contains_key(d)
    THEN /\ client[d].off <= Len(buffer[procs[d]])
         /\ client[d].got = SubSeq(buffer[procs[d]], 1, client[d].off)
    ELSE client[d].got = <<>> /\ client[d].off = 0

\* C11: with no eviction, a client that starts at offset 0 and passes each
\* new_offset into its next fetch has received, after every step of any
\* thread, exactly the lines of the buffer below its offset, each once and
\* in buffer order; each poll returns the buffer length as new_offset and
\* delivers every line not yet delivered; a fetch with an offset at or past
\* the length returns no line and the length.
C11_PollDeliversAll ==
  [][/\ \A d \in Devices : C11_PollStep(d)
     /\ \A d \in Devices, offset \in QueryOffsets : C11_FetchPastEnd(d, offset)
     /\ C11_Delivered']_vars

\* the client has polled in the middle of the stream and again at its end,
\* and a fetch past the end has answered
C11_Witness ==
  /\ contains_key(1)
  /\ Len(buffer[procs[1]]) = MaxStream + 1
  /\ client[1].got = buffer[procs[1]]
  /\ query.op = "fetch_logcat_buffer"
  /\ query.device = 1
  /\ query.offset > Len(buffer[procs[1]])
  /\ query.lines = <<>>
  /\ query.new_offset = Len(buffer[procs[1]])

\* the lines of unit u's buffer that a reader thread appended
RelayLines(u) == {i \in 1..Len(buffer[u]) : buffer[u][i][1] # 0}

\* C12 as stated: after 5 lines appended by the relay, a fetch from offset 0
\* returns 5 lines and offset 5, and a fetch from offset 5 returns no line
\* and offset 5.
C12_FiveLinesFive ==
  \A d \in Devices :
    contains_key(d) /\ Cardinality(RelayLines(procs[d])) = 5 =>
      /\ Len(fetch_logcat_buffer(d, 0).lines) = 5
      /\ fetch_logcat_buffer(d, 0).new_offset = 5
      /\ fetch_logcat_buffer(d, 5) = [lines |-> <<>>, new_offset |-> 5]

\* C12 amended: after 5 lines appended by the relay the buffer holds the
\* header line pushed by start_logcat and the 5 lines: a fetch from offset 0
\* returns these 6 lines and offset 6, a fetch from offset 6 returns no line
\* and offset 6, and a fetch from offset 5 returns the last line.
C12_HeaderAndFiveLines ==
  \A d \in Devices :
    contains_key(d) /\ Cardinality(RelayLines(procs[d])) = 5 =>
      LET u == procs[d]
          r == fetch_logcat_buffer(d, 0)
      IN  /\ r.new_offset = 6
          /\ r.lines = <<HeaderLine(d, cfg[u].output_file)>>
                          \o [i \in 1..5 |-> OutLine(child[u], i)]
          /\ fetch_logcat_buffer(d, 6) = [lines |-> <<>>, new_offset |-> 6]
          /\ fetch_logcat_buffer(d, 5) =
               [lines |-> <<OutLine(child[u], 5)>>, new_offset |-> 6]

\* five lines have been relayed, and the client polled from 0 and then again
C12_Witness ==
  /\ contains_key(1)
  /\ Cardinality(RelayLines(procs[1])) = 5
  /\ client[1].off = 6
  /\ Len(client[1].got) = 6
  /\ query.op = "fetch_logcat_buffer" /\ query.device = 1 /\ query.offset = 6
  /\ query.lines = <<>> /\ query.new_offset = 6

\* C13: is_logcat_active, get_logcat_details and fetch_logcat_buffer (called
\* with any offset, or by the polling client) change neither the registry
\* nor any unit's configuration, buffer, stop flag or child slot, nor any
\* thread, process or file; fetch_logcat_buffer for a key that is not in the
\* registry returns no line and offset 0.
C13_QueriesReadOnly ==
  [][\A d \in Devices :
       /\ (\/ IsLogcatActive(d) \/ GetLogcatDetails(d) \/ ClientPoll(d)
           \/ \E offset \in QueryOffsets : FetchLogcatBuffer(d, offset))
          => UNCHANGED <<procs, cfg, should_stop, child, buffer, sup, os, relay, mirror>>
       /\ \A offset \in QueryOffsets :
            FetchLogcatBuffer(d, offset) /\ ~contains_key(d) =>
              query'.lines = <<>> /\ query'.new_offset = 0
       /\ ClientPoll(d) /\ ~contains_key(d) =>
            client'[d].off = 0 /\ client'[d].got = client[d].got]_vars

\* a fetch with a positive offset has answered for the key that is not
\* registered, while the other key's unit has a child and relayed lines
C13_Witness ==
  /\ query.op = "fetch_logcat_buffer"
  /\ ~contains_key(query.device)
  /\ query.offset > 0
  /\ query.new_offset = 0
  /\ contains_key(1)
  /\ child[procs[1]] # 0
  /\ Len(buffer[procs[1]]) > 1

(***************************************************************************)
(* Claims about the order of relayed lines.                                *)
(***************************************************************************)
\* the last line of a sequence, as a set (empty for the empty sequence)
LastOf(q) == IF q = <<>> THEN {} ELSE {q[Len(q)]}

RECURSIVE LinesOf(_, _)
\* the lines of process p in the sequence q, in the order they stand in q
LinesOf(q, p) ==
  IF q = <<>> THEN <<>>
  ELSE IF Head(q)[1] = p THEN <<Head(q)>> \o LinesOf(Tail(q), p)
       ELSE LinesOf(Tail(q), p)

\* the first n lines process p wrote to its stdout
Produced(p, n) == [i \in 1..n |-> OutLine(p, i)]

\* in the buffer of its unit and in the output file, the lines of every
\* process are the first lines it produced, in the order it produced them
C14_InOrder ==
  \A p \in OsProcs :
    LET inbuf == LinesOf(buffer[os[p].unit], p)
        infile == LinesOf(mirror, p)
    IN  /\ inbuf = Produced(p, Len(inbuf))
        /\ infile = Produced(p, Len(infile))
        /\ Len(inbuf) <= os[p].written
        /\ Len(inbuf) <= Len(infile) \/ ~relay[p].fw

\* a step leaves the lines already in a buffer or in the file as they are
C14_AppendOnly ==
  /\ \A u \in Units :
       \/ buffer'[u] = buffer[u]
       \/ \E l \in LastOf(buffer'[u]) : buffer'[u] = Append(buffer[u], l)
  /\ \/ mirror' = mirror
     \/ \E l \in LastOf(mirror') : mirror' = Append(mirror, l)

\* C14: within a unit the lines of each supervised process stand in the
\* buffer, and in the output file, in the order the process wrote them to
\* its stdout, in every interleaving of the supervisor and reader threads;
\* no step reorders or removes lines already there (below the high-water
\* mark): a step only appends.
C14_RelayKeepsOrder ==
  [][C14_AppendOnly /\ C14_InOrder']_vars

\* two processes of one unit have both had two lines relayed to the buffer
\* and to the file, interleaved
C14_Witness ==
  \E p, q \in OsProcs :
    /\ p # q
    /\ os[p].unit = os[q].unit
    /\ Len(LinesOf(buffer[os[p].unit], p)) = 2
    /\ Len(LinesOf(buffer[os[p].unit], q)) = 2
    /\ Len(LinesOf(mirror, q)) = 2
    /\ buffer[os[p].unit][Len(buffer[os[p].unit])][1] = p
    /\ \E i \in 1..Len(buffer[os[p].unit]) :
         buffer[os[p].unit][i][1] = q /\ \E j \in 1..(i-1) : buffer[os[p].unit][j][1] = p

(***************************************************************************)
(* Claims about the end of a test run.                                     *)
(***************************************************************************)
\* the monitoring threads that have reaped a child of run r and have not
\* emitted test-finished yet
Emitting(r) == {m \in TestProcs : tmon[m].pc = "emit" /\ tmon[m].rid = r}

\* the children of run r that a monitoring thread has reaped
Reaped(r) == {p \in TestProcs : tos[p].run = r /\ tos[p].reaped}

\* one test-finished event, emitted or about to be, for each reaped child,
\* and a reaped child is no longer in the registry
C15_OneEventPerRun ==
  \A r \in RunIds :
    /\ finished[r] + Cardinality(Emitting(r)) = Cardinality(Reaped(r))
    /\ testProcs[r] # 0 => ~tos[testProcs[r]].reaped

\* C15 as stated: a registered child that has exited, or was killed by
\* stop_test, is eventually found exited by a monitoring thread (which then
\* emits its test-finished event).
C15_EventForEveryExit ==
  \A p \in 1..MaxTestProcs :
    (p \in TestProcs /\ testProcs[tos[p].run] = p /\ tos[p].st # "running")
      ~> (p \in TestProcs /\ tos[p].reaped)

\* C15 amended: a test-finished event is emitted exactly once for every
\* child a monitoring thread finds exited, after the entry was removed; and
\* a registered child that has exited, or was killed by stop_test, is
\* eventually found exited by a monitoring thread and its event emitted,
\* unless shutdown_all_tests empties the registry first (the monitoring
\* thread then ends without an event).
C15_TestFinishedOnce ==
  /\ []C15_OneEventPerRun
  /\ \A p \in 1..MaxTestProcs :
       /\ (p \in TestProcs /\ testProcs[tos[p].run] = p /\ tos[p].st # "running")
            ~> (p \in TestProcs /\ (tos[p].reaped \/ testProcs[tos[p].run] # p))
       /\ (p \in TestProcs /\ tmon[p].pc = "emit")
            ~> (p \in TestProcs /\ tmon[p].pc = "done" /\ finished[tmon[p].rid] > 0)

\* a run that stop_test killed has been reaped and its one event emitted,
\* and a run that exited by itself as well
C15_Witness ==
  \E p, q \in TestProcs :
    /\ tos[p].st = "killed" /\ tos[p].reaped
    /\ tos[q].st = "exited" /\ tos[q].reaped
    /\ tos[p].run # tos[q].run
    /\ finished[tos[p].run] = 1
    /\ finished[tos[q].run] = 1
    /\ tmon[p].pc = "done" /\ tmon[q].pc = "done"

(***************************************************************************)
(* Claims about global teardown.                                           *)
(***************************************************************************)
\* C16: when shutdown_all_tests returns the test registry is empty, a kill
\* has been issued on every child that was in it, and no test process of a
\* start request - registered, or spawned and about to be registered - is
\* left running.
C16_ShutdownLeavesNoTestProcess ==
  [][shutdown_all_tests =>
       /\ \A r \in RunIds :
            /\ testProcs'[r] = 0
            /\ testProcs[r] # 0 =>
                 /\ tos'[testProcs[r]].kills = tos[testProcs[r]].kills + 1
                 /\ tos'[testProcs[r]].st # "running"
       /\ \A p \in tcall : testProcs[tos[p].run] = 0 => tos'[p].st # "running"]_vars

(***************************************************************************)
(* Claims about the status of a unit.                                      *)
(***************************************************************************)
\* the units of key d that were started and not stopped
Live(d) == {u \in Units : cfg[u].device = d /\ ~should_stop[u]}

\* C17: for a key that was started and not stopped since, is_logcat_active
\* answers true and get_logcat_details answers active with the output file
\* given at that start, in every state of the supervisor and whether or not
\* the child slot holds a process; for any other key they answer inactive
\* and no output file.
C17_ActiveFromStartToStop ==
  \A d \in Devices :
    IF Live(d) = {}
    THEN /\ ~is_logcat_active(d)
         /\ get_logcat_details(d) = [is_active |-> FALSE, output_file |-> 0]
    ELSE /\ is_logcat_active(d)
         /\ \A u \in Live(d) :
              get_logcat_details(d) = [is_active |-> TRUE, output_file |-> cfg[u].output_file]

\* a unit with an output file is active while its supervisor waits for the
\* target and there is no child, after a child of the unit was killed
C17_Witness ==
  \E d \in Devices :
    /\ is_logcat_active(d)
    /\ get_logcat_details(d) = [is_active |-> TRUE, output_file |-> 1]
    /\ child[procs[d]] = 0
    /\ sup[procs[d]].pc = "nopid"
    /\ \E p \in OsProcs : os[p].unit = procs[d] /\ os[p].st = "killed"

(***************************************************************************)
(* Claims about start_ngrok.                                               *)
(***************************************************************************)
\* C18: a start_ngrok call that has returned the timeout error has issued
\* kill on the ngrok process it spawned, and that process is not running.
C18_TimeoutKillsChild ==
  \A c \in NgrokCalls :
    nret[c] = "Timed out waiting for ngrok URL" =>
      /\ ncall[c].child # 0
      /\ nos[ncall[c].child].kills >= 1
      /\ nos[ncall[c].child].st # "running"

\* a call has timed out on a child that nothing else had killed
C18_Witness ==
  \E c \in NgrokCalls :
    /\ nret[c] = "Timed out waiting for ngrok URL"
    /\ nos[ncall[c].child].kills = 1
    /\ nos[ncall[c].child].st = "killed"
    /\ ngrokState = ncall[c].child

\* C19: once more than 10 seconds have passed in a start_ngrok call that is
\* waiting for the URL, the call eventually returns, also when its ngrok
\* process stays alive and, though it could write another line, writes none.
C19_WaitIsBounded ==
  \A c \in 1..MaxNgrokCalls :
    (c \in NgrokCalls /\ ncall[c].late)
      ~> (c \in NgrokCalls /\ (\/ ncall[c].pc = "done"
                                \/ /\ ncall[c].child # 0
                                   /\ Len(nos[ncall[c].child].lines) = MaxNgrokLines))

(***************************************************************************)
(* Claims about the Appium server.                                         *)
(***************************************************************************)
\* what one start_appium_server call does, by what it finds in the slot
C20_StartStep ==
  start_appium_server =>
    IF appiumState # 0 /\ aos[appiumState].st = "running"
    THEN /\ aret'.res = "Appium is already running"
         /\ appiumState' = appiumState
         /\ Len(aos') = Len(aos)
    ELSE \/ /\ aret'.res = "Appium started"
            /\ Len(aos') = Len(aos) + 1
            /\ appiumState' = Len(aos')
            /\ aos'[appiumState'].st = "running"
         \/ /\ aret'.res = "Failed to start appium"
            /\ appiumState' = appiumState
            /\ Len(aos') = Len(aos)

\* every live Appium process is the one held in the slot
C20_OnlySlotIsLive ==
  \A p \in AppiumProcs : aos[p].st = "running" => appiumState = p

SpawnedBy(u) == {p \in OsProcs : os[p].unit = u}

\* C21: once the stop flag of a unit is set, no step spawns an adb logcat
\* process for that unit.
C21_NoSpawnAfterStop ==
  [][\A u \in Units :
       should_stop[u] =>
         \/ Len(os') = Len(os)
         \/ os'[Len(os')].unit # u]_vars

\* the get_pid calls of unit u's supervisor, in the order made
Sampled(u) == SelectSeq(lookups, LAMBDA l : l.unit = u)

At(u, place, r) == [unit |-> u, at |-> place, ans |-> r]

\* pid a at the initial resolve and on the first monitor tick, pid b on the
\* second tick and at the resolve that follows
SamplesAABB(u, a, b) ==
  <<At(u, "loop", PidSome(a)), At(u, "pidchk", PidSome(a)),
    At(u, "pidchk", PidSome(b)), At(u, "loop", PidSome(b))>>

\* what unit u has spawned and killed after the first n of those samples
C22_After(u, a, b, n) ==
  /\ \A p \in SpawnedBy(u) :
       IF \A q \in SpawnedBy(u) : p <= q
       THEN /\ os[p].pidarg = a
            /\ os[p].kills = (IF n >= 3 THEN 1 ELSE IF should_stop[u] THEN os[p].kills ELSE 0)
            /\ os[p].kills <= 1
       ELSE /\ n = 4
            /\ os[p].pidarg = b
            /\ os[p].kills = (IF should_stop[u] THEN os[p].kills ELSE 0)
            /\ os[p].kills <= 1
  /\ n >= 2 => SpawnedBy(u) # {}
  /\ n = 3 => Cardinality(SpawnedBy(u)) = 1 /\ child[u] = 0

\* a monitor tick that is given the pid of the current spawn changes
\* nothing: the child stays in the slot, no kill is issued
C22_SamePidStep ==
  \A u \in Units :
    /\ sup[u].pc = "pidchk"
    /\ lookups' = Append(lookups, At(u, "pidchk", PidSome(sup[u].current_pid)))
    => /\ child' = child
       /\ os' = os
       /\ sup'[u].pc = "mon"

\* C22: when the supervisor of a unit is given pid a at its initial resolve
\* and on its first monitor tick, and pid b # a on its second tick and at
\* the next resolve, the one process spawned before the second tick was
\* passed a and has had exactly one kill issued on it, issued by the second
\* tick; nothing is spawned or killed before that tick; every process
\* spawned afterwards is passed b and is not killed by the supervisor; and a
\* tick that is given the pid of the current spawn kills nothing.
C22_RestartOnce ==
  [][/\ C22_SamePidStep
     /\ \A u \in Units : \A a, b \in Pids : \A n \in 1..4 :
          (a # b /\ Sampled(u) = SubSeq(SamplesAABB(u, a, b), 1, n))' =>
            C22_After(u, a, b, n)']_vars

\* the four samples have been taken and the process spawned after the
\* restart runs with the second pid
C22_Witness ==
  \E u \in Units : \E a, b \in Pids :
    /\ a # b
    /\ Sampled(u) = SamplesAABB(u, a, b)
    /\ \E p, q \in SpawnedBy(u) :
         /\ p < q
         /\ os[p].pidarg = a /\ os[p].st = "killed"
         /\ os[q].pidarg = b /\ os[q].st = "running"
         /\ child[u] = q

\* a step that spawns a process for unit u finds every process the unit
\* spawned before exited or killed
C23_SpawnStep ==
  \A u \in Units :
    Len(os') = Len(os) + 1 /\ os'[Len(os')].unit = u =>
      \A p \in SpawnedBy(u) :
        /\ os[p].st # "running"
        /\ os[p].st = "killed" => os[p].kills >= 1

\* a monitor tick that decides to restart takes the child out of the slot
\* and issues kill on it
C23_RestartStep ==
  \A u \in Units :
    sup[u].pc = "pidchk" /\ sup'[u].pc = "cleanup" =>
      /\ child'[u] = 0
      /\ child[u] # 0 =>
           /\ os'[child[u]].kills = os[child[u]].kills + 1
           /\ os'[child[u]].st # "running"

\* a supervisor that is resolving or about to spawn, its unit not stopped,
\* has left no process running
C23_ResolvingAlone ==
  \A u \in Units :
    ~should_stop[u] /\ sup[u].pc \in {"loop", "nopid", "spawn"} =>
      \A p \in SpawnedBy(u) : os[p].st # "running"

NoMatchYet(u) ==
  \A i \in 1..Len(Sampled(u)) : Sampled(u)[i].ans.tag # "Some"

\* three resolves that find no process of the package, then one that finds p
SamplesThenFound(u, p) ==
  <<At(u, "loop", PidNone), At(u, "loop", PidNone), At(u, "loop", PidNone),
    At(u, "loop", PidSome(p))>>

\* C24: a unit started with a package filter spawns nothing while get_pid
\* has found no pid: its supervisor only alternates between the lookup and
\* the 1.5 s wait, or has ended; after three lookups without a match and
\* one that finds pid p it spawns one process, passed --pid p, and no other.
C24_NoSpawnWithoutMatch ==
  \A u \in Units :
    cfg[u].pkg =>
      /\ NoMatchYet(u) =>
           /\ SpawnedBy(u) = {}
           /\ child[u] = 0
           /\ sup[u].pc \in {"loop", "nopid", "done"}
      /\ \A p \in Pids :
           Sampled(u) = SamplesThenFound(u, p) =>
             /\ Cardinality(SpawnedBy(u)) <= 1
             /\ \A q \in SpawnedBy(u) : os[q].pidarg = p
             /\ sup[u].pc \in {"store", "mon", "wait", "pidchk", "cleanup"} =>
                  Cardinality(SpawnedBy(u)) = 1

\* after three lookups without a match and one with, the one process runs
\* and is monitored
C24_Witness ==
  \E u \in Units : \E p \in Pids :
    /\ Sampled(u) = SamplesThenFound(u, p)
    /\ sup[u].pc = "mon"
    /\ child[u] # 0
    /\ os[child[u]].pidarg = p
    /\ os[child[u]].st = "running"

\* C25: a monitor tick on which get_pid answers with an error does what a
\* tick does that finds no process of the package: the child is taken out
\* of the slot and killed, and the supervisor leaves the monitor loop to
\* resolve again.
C25_LookupErrorIsAbsence ==
  [][\A u \in Units :
       /\ sup[u].pc = "pidchk"
       /\ lookups' = Append(lookups, At(u, "pidchk", PidErr))
       => /\ sup'[u].pc = "cleanup"
          /\ child'[u] = 0
          /\ child[u] # 0 => os'[child[u]].kills = os[child[u]].kills + 1]_vars

(***************************************************************************)
(* Claims about spawn failures and the end of the supervisor.              *)
(***************************************************************************)
\* a failed cmd.spawn() leaves the registry, the stop flags, the child
\* slots, the buffers and the processes as they were; only the supervisor
\* moves on to its backoff
C26_FailStep ==
  \A u \in Units :
    sup[u].pc = "spawn" /\ sup'[u].pc = "tail" =>
      /\ UNCHANGED <<procs, cfg, should_stop, child, buffer, os, relay>>
      /\ is_logcat_active(cfg[u].device)' = is_logcat_active(cfg[u].device)

\* the supervisor thread ends only with the stop flag set
C26_EndsOnlyStopped ==
  \A u \in Units : sup[u].pc = "done" => should_stop[u]

C27_DoneStep ==
  \A u \in Units :
    sup[u].pc = "done" =>
      /\ sup'[u] = sup[u]
      /\ SpawnedBy(u)' = SpawnedBy(u)
      /\ child'[u] = 0

\* C27: once the stop flag of a unit is set, its supervisor thread
\* eventually ends, from wherever it stands (resolving, waiting, spawning,
\* in the monitor loop or in a backoff), given that its sleeps and adb
\* commands return; an ended supervisor never moves again and nothing is
\* spawned for its unit afterwards.
C27_StoppedIsTerminal ==
  /\ [][C27_DoneStep]_vars
  /\ \A u \in 1..MaxUnits :
       (u \in Units /\ should_stop[u]) ~> (u \in Units /\ sup[u].pc = "done")

\* a unit was stopped while its child ran in the monitor loop, and its
\* supervisor has ended
C27_Witness ==
  \E u \in Units :
    /\ should_stop[u]
    /\ sup[u].pc = "done"
    /\ \E p \in SpawnedBy(u) : os[p].st = "killed"

(***************************************************************************)
(* Claims about the output of a test run.                                  *)
(***************************************************************************)
\* every line test process p wrote to its stdout and stderr has been
\* emitted as a test-output event
Drained(p) == \A s \in Streams : tout[p][s].read = tout[p][s].written

\* C28: a step that emits the test-finished event of a run, or that removes
\* the run's entry from the registry on finding its child exited, finds
\* every line the child wrote to stdout and stderr already emitted as a
\* test-output event.
C28_FinishedAfterDrained ==
  [][\A r \in RunIds :
       \/ finished'[r] > finished[r]
       \/ testProcs[r] # 0 /\ testProcs'[r] = 0
       => \A p \in TestProcs : tos[p].run = r /\ tos'[p].reaped => Drained(p)]_vars

(***************************************************************************)
(* Claims about the reader threads and the output file.                    *)
(***************************************************************************)
\* the reader thread of process p has been started
Started(p) == relay[p].pc # "unborn"

\* C29: a step in which the reader thread of a process appends a line to
\* the unit's buffer finds no reader thread started for a later process of
\* the same unit: only the reader thread of the newest process writes.
C29_SoleWriter ==
  [][\A p \in OsProcs :
       relay[p].pc = "push" /\ relay'[p].pc = "read" =>
         \A q \in OsProcs : q > p /\ os[q].unit = os[p].unit => ~Started(q)]_vars

\* the reader threads of unit u that have gone through their open of the
\* output file
Opened(u) ==
  {p \in SpawnedBy(u) : cfg[u].output_file # 0 /\ relay[p].pc \notin {"unborn", "open"}}

C30_OpenStep ==
  \A p \in OsProcs :
    /\ relay[p].pc \notin {"unborn", "open"} =>
         /\ relay'[p].pc # "open"
         /\ relay'[p].fw = relay[p].fw
    /\ relay'[p].fw => cfg[os[p].unit].output_file # 0

\* a line is pushed to the buffer by a thread with the file open only after
\* it has been written to the file
C30_PushStep ==
  \A p \in OsProcs :
    relay[p].pc = "push" /\ relay'[p].pc = "read" /\ relay[p].fw =>
      OutLine(p, relay[p].readn) \in Range(mirror)

\* the file holds lines of the threads that opened it, and of no other
C30_FileLines ==
  \A p \in OsProcs :
    IF relay[p].fw
    THEN Len(LinesOf(buffer[os[p].unit], p)) <= Len(LinesOf(mirror, p))
    ELSE LinesOf(mirror, p) = <<>>

C31_KillStep ==
  \A p \in OsProcs :
    os'[p].kills > os[p].kills =>
      LET u == os[p].unit
      IN  /\ child[u] = p
          /\ child'[u] = 0
          /\ os[p].kills = 0
          /\ os'[p].kills = 1
          /\ \/ /\ stop_logcat(cfg[u].device)
                /\ procs[cfg[u].device] = u
                /\ sup' = sup
             \/ /\ sup[u].pc = "pidchk"
                /\ sup'[u].pc = "cleanup"
                /\ procs' = procs

\* a step that spawns a process for a unit finds the unit's slot empty
C31_SpawnStep ==
  \A u \in Units :
    Len(os') = Len(os) + 1 /\ os'[Len(os')].unit = u => child[u] = 0

\* the slot of a unit holds only a process of the unit that nobody killed
C31_SlotOwnsChild ==
  \A u \in Units :
    child[u] # 0 => os[child[u]].unit = u /\ os[child[u]].kills = 0

\* C31: kill is issued at most once on every adb logcat process, by the
\* step of stop_logcat or of the supervisor's monitor that takes the
\* process out of the child slot; the slot is empty whenever the supervisor
\* spawns.
C31_SingleKiller ==
  [][C31_KillStep /\ C31_SpawnStep /\ C31_SlotOwnsChild']_vars

\* the monitor killed the first process of a unit, stop_logcat the second
C31_Witness ==
  \E u \in Units : \E p, q \in SpawnedBy(u) :
    /\ p < q
    /\ os[p].kills = 1 /\ os[p].st = "killed"
    /\ os[q].kills = 1 /\ os[q].st = "killed"
    /\ should_stop[u]

\* what a step can do to a unit without a package filter: its supervisor
\* never waits for a pid and never checks one, it passes no pid to the
\* processes it spawns, and only stop_logcat issues kill on them
C32_FilterlessStep ==
  \A u \in Units :
    ~cfg[u].pkg =>
      /\ sup'[u].pc \notin {"nopid", "pidchk"}
      /\ sup'[u].current_pid = 0
      /\ \A p \in OsProcs :
           os[p].unit = u =>
             /\ os[p].pidarg = 0
             /\ os'[p].kills > os[p].kills =>
                  stop_logcat(cfg[u].device) /\ procs[cfg[u].device] = u

\* C32: the supervisor of a unit without a package filter never looks up a
\* pid and never kills its child; whenever the child in the slot has exited
\* the supervisor comes back to cmd.spawn(), through its cleanup and its
\* 1 s wait, unless the stop flag is set, however often that happens.
C32_FilterlessRespawns ==
  /\ [][C32_FilterlessStep]_vars
  /\ \A u \in 1..MaxUnits :
       (u \in Units /\ ~cfg[u].pkg /\ child[u] # 0 /\ os[child[u]].st = "exited")
         ~> (u \in Units /\ (sup[u].pc = "spawn" \/ should_stop[u]))

\* the first process of a unit without a filter has exited by itself, the
\* second runs in the slot
C32_Witness ==
  \E u \in Units : \E p, q \in SpawnedBy(u) :
    /\ ~cfg[u].pkg
    /\ ~should_stop[u]
    /\ p < q
    /\ os[p].st = "exited" /\ os[p].kills = 0
    /\ child[u] = q /\ os[q].st = "running"

(***************************************************************************)
(* Claims about get_pid.                                                   *)
(***************************************************************************)
\* pidof found a process and its oom_score_adj was read as CachedScore or more
Cached(pidof, oom) ==
  pidof.ok /\ pidof.pid # 0 /\ oom.ok /\ oom.parsed /\ oom.score >= CachedScore

\* pidof found a process whose score is lower or could not be read
Active(pidof, oom) ==
  pidof.ok /\ pidof.pid # 0 /\ ~(oom.ok /\ oom.parsed /\ oom.score >= CachedScore)

\* what get_pid answers
C36_Answers ==
  \A pidof \in PidofOutputs, oom \in OomOutputs :
    /\ Cached(pidof, oom) => get_pid(pidof, oom) = get_pid([ok |-> TRUE, pid |-> 0], oom)
    /\ Cached(pidof, oom) => get_pid(pidof, oom) = PidNone
    /\ Active(pidof, oom) => get_pid(pidof, oom) = PidSome(pidof.pid)

\* what the supervisor does with the answer for a cached process, and with
\* the answer for an active one while resolving
C36_LookupStep ==
  \A u \in Units :
    Len(lookups') = Len(lookups) + 1 /\ lookups'[Len(lookups')].unit = u =>
      LET l == lookups'[Len(lookups')]
      IN  /\ Cached(l.pidof, l.oom) /\ l.at = "loop" =>
               /\ sup'[u].pc = "nopid"
               /\ os' = os
          /\ Cached(l.pidof, l.oom) /\ l.at = "pidchk" =>
               /\ sup'[u].pc = "cleanup"
               /\ child'[u] = 0
               /\ child[u] # 0 => /\ os'[child[u]].kills = os[child[u]].kills + 1
                                  /\ os'[child[u]].st # "running"
          /\ Active(l.pidof, l.oom) /\ l.at = "loop" =>
               /\ sup'[u].pc = "spawn"
               /\ sup'[u].current_pid = l.pidof.pid

\* C36: get_pid answers for a process that pidof finds with an
\* oom_score_adj of 900 or more what it answers when pidof finds nothing:
\* no pid; the supervisor then waits instead of spawning while resolving,
\* and kills the child in the slot on a monitor tick; a process whose score
\* is below 900, or whose score cannot be read or parsed, is answered as
\* found, and the supervisor goes on to spawn with that pid.
C36_CachedIsNotFound ==
  [][C36_Answers /\ C36_LookupStep]_vars

\* a monitor tick found the package's process cached and killed the child
C36_Witness ==
  \E i \in 1..Len(lookups) :
    /\ lookups[i].at = "pidchk"
    /\ Cached(lookups[i].pidof, lookups[i].oom)
    /\ lookups[i].oom.score = CachedScore
    /\ \E p \in SpawnedBy(lookups[i].unit) : os[p].st = "killed"
    /\ ~should_stop[lookups[i].unit]

(***************************************************************************)
(* Claims about the pids the test registry kills.                          *)
(***************************************************************************)
\* every child in the test registry is unreaped and runs the entry's run id
C39_EntryUnreaped ==
  \A r \in RunIds :
    testProcs[r] # 0 =>
      /\ testProcs[r] \in TestProcs
      /\ tos[testProcs[r]].run = r
      /\ ~tos[testProcs[r]].reaped

\* a step that reaps a child takes its entry out of the registry
C39_ReapStep ==
  \A p \in TestProcs :
    ~tos[p].reaped /\ tos'[p].reaped =>
      /\ testProcs[tos[p].run] = p
      /\ testProcs'[tos[p].run] = 0

\* a step that sends a kill sends it to an unreaped child of the registry
C39_KillStep ==
  \A p \in TestProcs :
    tos'[p].kills > tos[p].kills =>
      /\ testProcs[tos[p].run] = p
      /\ ~tos[p].reaped

\* C39: a run id is in the test registry only while its child has not been
\* reaped: the step of the monitoring thread in which try_wait reports the
\* exit also removes the entry, and every kill stop_test or
\* shutdown_all_tests sends goes to a child that is in the registry under
\* its own run id and has not been reaped, so its pid is still its own.
C39_KillsOwnChild ==
  [][C39_EntryUnreaped /\ C39_ReapStep /\ C39_KillStep /\ C39_EntryUnreaped']_vars

\* a child that had exited was killed by pid before its monitoring thread
\* reaped it, and its run id was then used again
C39_Witness ==
  \E p, q \in TestProcs :
    /\ p < q
    /\ tos[p].run = tos[q].run
    /\ tos[p].st = "exited"
    /\ tos[p].kills >= 1
    /\ tos[p].reaped
    /\ testProcs[tos[q].run] = q

(***************************************************************************)
(* Claims about the pid NgrokState records.                                *)
(***************************************************************************)
\* no start_ngrok call is under way
NgrokQuiet == \A c \in NgrokCalls : ncall[c].pc = "done"

\* every ngrok process that is alive is the recorded one
C40_LiveIsRecorded ==
  NgrokQuiet => \A p \in NgrokProcs : nos[p].st = "running" => ngrokState = p

\* the recorded pid is of a spawned process no kill was issued on
C40_RecordedNotKilled ==
  NgrokQuiet /\ ngrokState # 0 =>
    ngrokState \in NgrokProcs /\ nos[ngrokState].kills = 0

\* C40: whenever every start_ngrok call made so far has returned, every
\* ngrok process that start_ngrok spawned and that is still alive has its
\* pid in NgrokState, and NgrokState holds a pid only of a spawned process
\* that this program has not killed.
C40_StateTracksProcess ==
  C40_LiveIsRecorded /\ C40_RecordedNotKilled

(***************************************************************************)
(* Claims about the end of the output threads.                             *)
(***************************************************************************)
\* the read of output thread (p, s) returns in this step, with a read
\* error or with the end of the stream
AppiumReadFails(p, s) ==
  /\ aout[p][s].pc = "read"
  /\ aout'[p][s] # aout[p][s]
  /\ aout'[p][s].written = aout[p][s].written
  /\ \/ /\ aout[p][s].read < Len(aout[p][s].written)
        /\ aout[p][s].written[aout[p][s].read + 1] = "bad"
     \/ aout[p][s].read = Len(aout[p][s].written)

\* C33: an output thread whose read reports a read error or the end of
\* the stream terminates in that step, and a thread that has terminated
\* emits nothing more.
C33_ReaderEndsOnErrorOrEof ==
  [][\A p \in AppiumProcs : \A s \in Streams :
       /\ AppiumReadFails(p, s) => aout'[p][s].pc = "done"
       /\ aout[p][s].pc = "done" => aout'[p][s] = aout[p][s]]_vars

(***************************************************************************)
(* Claims about the generations of a key.                                  *)
(***************************************************************************)
\* what the threads and commands share of unit u: its flag, slot and
\* buffer and the processes it spawned
UnitShared(u) ==
  <<should_stop[u], child[u], buffer[u], [p \in SpawnedBy(u) |-> os[p]]>>

\* a thread of unit u takes this step: its supervisor or one of its readers
ThreadStep(u) ==
  \/ sup'[u] # sup[u]
  \/ \E p \in SpawnedBy(u) : relay'[p] # relay[p] /\ relay[p].pc # "unborn"

\* the threads of a unit leave every other unit's flag, slot, buffer and
\* processes as they are
C38_ThreadsKeepOut ==
  \A u, v \in Units :
    u # v /\ ThreadStep(u) => UnitShared(v)' = UnitShared(v)

\* a step that sets a stop flag or kills from outside the unit's own
\* threads is stop_logcat on the unit the registry holds, and it leaves
\* the other units alone
C38_StopStep ==
  \A u \in Units :
    ~should_stop[u] /\ should_stop'[u] =>
      /\ procs[cfg[u].device] = u
      /\ \A v \in Units \ {u} : UnitShared(v)' = UnitShared(v)

\* a new unit starts with its flag false, its slot empty and its header
\* line alone in its buffer, and leaves the older units as they are
C38_StartStep ==
  Len(cfg') = Len(cfg) + 1 =>
    LET n == Len(cfg')
    IN  /\ ~should_stop'[n]
        /\ child'[n] = 0
        /\ buffer'[n] = <<HeaderLine(cfg'[n].device, cfg'[n].output_file)>>
        /\ \A v \in Units : UnitShared(v)' = UnitShared(v)

\* the buffer of a unit holds its header and lines of its own processes;
\* its slot holds a process of its own
C38_OwnContents ==
  \A u \in Units :
    /\ child[u] # 0 => os[child[u]].unit = u
    /\ \A i \in 1..Len(buffer[u]) :
         \/ buffer[u][i] = HeaderLine(cfg[u].device, cfg[u].output_file)
         \/ \E p \in SpawnedBy(u) : \E k \in 1..os[p].written :
              buffer[u][i] = OutLine(p, k)

\* C38: the generations of a key are isolated: the supervisor and reader
\* threads of a unit never change another unit's buffer, child slot, stop
\* flag or processes; stop_logcat sets the flag of the unit in the registry
\* only; a unit started after a stop begins with its flag false, its slot
\* empty and only its own header line in its buffer, and its buffer and
\* slot hold nothing of the older unit afterwards.
C38_GenerationsIsolated ==
  [][C38_ThreadsKeepOut /\ C38_StopStep /\ C38_StartStep /\ C38_OwnContents']_vars

\* the key was stopped and started again; the old unit's supervisor spawned
\* a process after the new unit's was spawned, stored it, saw its flag and
\* ended, and the old reader ended; the new unit's process is still in its
\* slot, running, and its line is in the new buffer
C38_Witness ==
  /\ Len(cfg) = 2
  /\ procs[1] = 2
  /\ should_stop[1] /\ ~should_stop[2]
  /\ sup[1].pc = "done"
  /\ \E p \in SpawnedBy(1), q \in SpawnedBy(2) :
       /\ q < p
       /\ relay[p].pc = "done"
       /\ os[p].written >= 1
       /\ child[2] = q
       /\ os[q].st = "running"
       /\ buffer[2] = <<HeaderLine(1, 0), OutLine(q, 1)>>

(***************************************************************************)
(* Claims about the locks.                                                 *)
(***************************************************************************)
\* C34: the supervisor, reader and monitoring threads hold no mutex while
\* they wait: the supervisor holds neither the registry, the child nor the
\* buffer mutex in its 1.5 s, 1 s and 2 s sleeps, in get_pid and in
\* cmd.spawn(); the reader holds none in its blocking line read; the test
\* monitor holds none in its 500 ms sleep.
C34_NoLockWhileSuspended ==
  \A t \in SupThreads \cup RelayThreads \cup MonitorThreads :
    Instr(t).op \in BlockingOps => Held(t) = {}

\* the supervisor is in its monitor tick, the reader in its read and the
\* test monitor in its sleep while the callers hold both registries, one
\* of them waiting for the child mutex
C34_Witness ==
  /\ at[<<"sup", 1>>] = "L171"
  /\ at[<<"relay", 1>>] = "L144"
  /\ at[<<"monitor", 1>>] = "R429"
  /\ mutex[LogcatStateLock] = <<"call", 1>>
  /\ at[<<"call", 1>>] = "L304"
  /\ mutex[TestStateLock] = <<"call", 2>>

\* C35: no thread that holds a registry mutex (LogcatState, TestState,
\* AppiumState, NgrokState) stands at the spawn of an external process, at
\* the wait for an external command or process, or at a blocking read.
C35_NoRegistryLockWhileBlocked ==
  \A t \in Threads :
    Instr(t).op \in {"spawn", "command", "wait", "read"} =>
      Held(t) \cap RegistryLocks = {}

\* a thread that takes a mutex holds none, or is a command that holds the
\* registry alone and takes a child or buffer mutex
C37_LockOrder ==
  \A t \in Threads :
    Instr(t).op = "lock" =>
      \/ Held(t) = {}
      \/ /\ t \in CallerThreads
         /\ Held(t) = {LogcatStateLock}
         /\ Instr(t).lock[1] \in {"child", "buffer"}

\* no set of threads in which each waits for a mutex another one holds
C37_NoCyclicWait ==
  \A S \in SUBSET Threads :
    S # {} => \E t \in S : ~(Instr(t).op = "lock" /\ mutex[Instr(t).lock] \in S)

\* C37: the logcat subsystem is deadlock-free: a thread takes a mutex
\* holding none, or as a command holding the registry and taking a child
\* or buffer mutex (the supervisor and reader threads take theirs alone);
\* no cyclic wait is reachable; and every command that is begun returns.
C37_DeadlockFree ==
  /\ [](C37_LockOrder /\ C37_NoCyclicWait)
  /\ \A t \in CallerThreads : (at[t] # "idle") ~> (at[t] = "idle")

\* stop_logcat holds the registry and waits for the child mutex, which the
\* supervisor holds; the other caller waits for the registry; the reader
\* holds the buffer mutex
C37_Witness ==
  /\ at[<<"call", 1>>] = "L304"
  /\ mutex[LogcatStateLock] = <<"call", 1>>
  /\ mutex[ChildLock(1)] = <<"sup", 1>>
  /\ at[<<"call", 2>>] = "L353"
  /\ mutex[BufferLock(1)] = <<"relay", 1>>

====
